---- MODULE Spec2Model ----
(***************************************************************************)
(* Verification model of the rbfx/Urho3D render pipeline core:             *)
(*   - BatchStateCache (pipeline state cache),                             *)
(*   - ScenePass / ShadowScenePass batch collection and resolution,        *)
(*   - DrawableProcessor visibility stage and queued drawable updates,     *)
(*   - LightProcessor shadow split setup and shadow map assignment.        *)
(* Every subsystem has its own specification over the shared variables.    *)
(***************************************************************************)
EXTENDS Integers, Sequences, FiniteSets, TLC

(***************************************************************************)
(* Bounds of the model.                                                    *)
(***************************************************************************)
\* Number of distinct valid pipeline state objects the callback may return.
NumStateHandles == 2
\* Saturation value of the callback invocation counter.
CallCap == 3

(***************************************************************************)
(* Pipeline states.                                                        *)
(***************************************************************************)
\* nullptr
NullState == 0
ValidStates == 1 .. NumStateHandles
\* Everything CreateBatchPipelineState may return: a pipeline state, or nullptr if
\* the state could not be created.
CallbackResults == {NullState} \cup ValidStates

IsValidState(s) == s \in ValidStates

MinOf(a, b) == IF a < b THEN a ELSE b
MaxOf(a, b) == IF a > b THEN a ELSE b

(***************************************************************************)
(* BatchStateLookupKey                                                     *)
(***************************************************************************)
MakeKey(drawableHash, pixelLightHash, geometryType, geometry, material, pass) ==
    [drawableHash_ |-> drawableHash, pixelLightHash_ |-> pixelLightHash,
     geometryType_ |-> geometryType, geometry_ |-> geometry,
     material_ |-> material, pass_ |-> pass]

\* Mutant: the comparison leaves the material out.
KeyEquals_IgnoringMaterial(lhs, rhs) ==
    /\ lhs.drawableHash_ = rhs.drawableHash_
    /\ lhs.pixelLightHash_ = rhs.pixelLightHash_
    /\ lhs.geometryType_ = rhs.geometryType_
    /\ lhs.geometry_ = rhs.geometry_
    /\ lhs.pass_ = rhs.pass_

\* BatchStateLookupKey::operator ==
KeyEquals(lhs, rhs) ==
    /\ lhs.drawableHash_ = rhs.drawableHash_
    /\ lhs.pixelLightHash_ = rhs.pixelLightHash_
    /\ lhs.geometryType_ = rhs.geometryType_
    /\ lhs.geometry_ = rhs.geometry_
    /\ lhs.material_ = rhs.material_
    /\ lhs.pass_ = rhs.pass_

\* Keys exercised against a single cache: a base key, one with another material,
\* one with another per-pixel light hash.
CacheKeys ==
    { MakeKey(1, 0, 1, 1, 1, 1), MakeKey(1, 0, 1, 1, 2, 1), MakeKey(1, 1, 1, 1, 1, 1) }

(***************************************************************************)
(* BatchStateCache: cache_ is a map from key to CachedBatchState.          *)
(***************************************************************************)
\* CachedBatchState
CachedBatchState(state, invalidated) == [pipelineState_ |-> state, invalidated_ |-> invalidated]

\* cache_.find(key) with operator == of the key
CacheFind(cache, key) == { k \in DOMAIN cache : KeyEquals(k, key) }

CacheHas(cache, key) == CacheFind(cache, key) # {}

CacheEntry(cache, key) == cache[CHOOSE k \in CacheFind(cache, key) : TRUE]

\* Mutant: a stored nullptr counts as a miss too.
CacheMiss_OnNull(cache, key) ==
    \/ ~CacheHas(cache, key)
    \/ CacheEntry(cache, key).invalidated_
    \/ CacheEntry(cache, key).pipelineState_ = NullState

\* Whether GetOrCreatePipelineState has to invoke the callback.
CacheMiss(cache, key) == ~CacheHas(cache, key) \/ CacheEntry(cache, key).invalidated_

\* BatchStateCache::GetPipelineState: the stored state, or nullptr if not found.
GetPipelineState(cache, key) ==
    IF CacheMiss(cache, key) THEN NullState ELSE CacheEntry(cache, key).pipelineState_

\* Mutant: the new entry keeps the default invalidated_ flag.
StoreCreated_KeepsInvalidated(cache, key, created) ==
    [k \in DOMAIN cache \cup {key} |->
        IF k = key THEN CachedBatchState(created, TRUE) ELSE cache[k]]

\* Cache contents after BatchStateCache::GetOrCreatePipelineState stored created,
\* the result of the callback.
StoreCreated(cache, key, created) ==
    [k \in DOMAIN cache \cup {key} |->
        IF k = key THEN CachedBatchState(created, FALSE) ELSE cache[k]]

CacheAfterGetOrCreate(cache, key, created) ==
    IF CacheMiss(cache, key) THEN StoreCreated(cache, key, created) ELSE cache

\* BatchStateCache::GetOrCreatePipelineState: the returned state.
GetOrCreatePipelineState(cache, key, created) ==
    CacheEntry(CacheAfterGetOrCreate(cache, key, created), key).pipelineState_

\* BatchStateCache::Invalidate
Invalidate(cache) ==
    [k \in DOMAIN cache |-> CachedBatchState(cache[k].pipelineState_, TRUE)]

EmptyCache == [k \in {} |-> CachedBatchState(NullState, TRUE)]

(***************************************************************************)
(* Scene of the scene passes: drawables with one source batch each.        *)
(***************************************************************************)
\* Worker threads of the WorkQueue plus the main thread (index 0).
NumThreads == 2
\* Pass indices a technique may have, and source batches of a drawable.
NumTechniquePasses == 4
MaxSourceBatches == 2
\* Notifications a camera processor receives.
MaxNotifications == 5
\* Calls of PrepareForColorReadWrite in a frame.
MaxPrepareCalls == 3
\* Frames of a render buffer, textures the renderer hands out, accessor calls, and
\* the distance between the name of a texture and the name of its render surface.
MaxRenderFrames == 2
NumScreenBuffers == 2
MaxAccessCalls == 3
SurfaceOffset == 10
\* Lights accumulated for a lit geometry, and the greatest binary order of magnitude
\* of an intensity penalty.
MaxAccumulatedLights == 2
MaxBinade == 25
\* Lit geometries of a light.
MaxLitGeometries == 2
NumDrawables == 2
\* Frames a scene pass runs through.
MaxFrames == 2
\* Shadow splits of the shadowed light.
NumSplits == 2
\* Light batches resolved one after the other when keys are compared.
MaxRequests == 3

\* M_MAX_UNSIGNED as light index: no light. Lights are numbered from 1.
NoLightIndex == 0

Threads == 0 .. (NumThreads - 1)
MainThread == 0
Drawables == 1 .. NumDrawables
Splits == 1 .. NumSplits
Lights == {1, 2}
\* Technique pass indices of the forward pass and of the shadow pass.
UnlitBasePass == 1
LitBasePass == 2
LightPass == 3
ShadowPass == 4

\* What of a drawable and its source batch contributes to the lookup key.
BaseShape == [drawableHash |-> 1, geometryType |-> 1, geometry |-> 1, material |-> 1]
Shapes ==
    { BaseShape, [BaseShape EXCEPT !.drawableHash = 2], [BaseShape EXCEPT !.geometryType = 2],
      [BaseShape EXCEPT !.geometry = 2], [BaseShape EXCEPT !.material = 2] }
\* The scenes of the scene pass: the drawables differ in material at most.
SceneShapes ==
    { s \in [Drawables -> {BaseShape, [BaseShape EXCEPT !.material = 2]}] : s[1] = BaseShape }

\* Ranked per-pixel lights of a drawable (DrawableLightingData::GetPixelLights).
PixelLightLists == { <<2>>, <<1, 2>> }

\* What the shadow pass reads of a shadow caster: shadow mask in its zone, shadow
\* distance, draw distance, distance from the camera, and whether the technique
\* of its material supports the shadow pass.
CasterSetting(shadowMask, shadowDistance, drawDistance, distance, shadowPass) ==
    [shadowMask |-> shadowMask, shadowDistance |-> shadowDistance,
     drawDistance |-> drawDistance, distance |-> distance, shadowPass |-> shadowPass]

DefaultCaster == CasterSetting(1, 0, 0, 2, TRUE)

\* Shadow casters of the shadow pass: without distance limit or beyond the shadow
\* distance, with or without shadow pass.
CasterSettings ==
    { CasterSetting(1, shadowDistance, 0, 2, shadowPass) :
        shadowDistance \in {0, 1}, shadowPass \in BOOLEAN }

VARIABLES
    \* ShadowScenePass::pipelineStateCache_, also the cache driven directly.
    pipelineStateCache_,
    \* The latest call made on the cache: operation, key and returned state.
    lastCall,
    \* Callback invocations per cache and key since the latest Invalidate.
    createCalls,
    \* State returned by GetOrCreatePipelineState per key since the latest Invalidate.
    resolved,
    \* Result and number of the GetPipelineState calls per key since the latest
    \* GetOrCreatePipelineState or Invalidate.
    lookedUp,
    \* Scene: shape of every drawable, its pixel lights, the main light, light hashes.
    \* litGeometries: the drawables whose technique has a light pass.
    shape, litGeometries, pixelLights, mainLightIndex, lightHash,
    \* Which pass is observed ("forward" or "shadow"); per split the shadow casters of
    \* the shadowed light, the settings of the casters, the mask of the light.
    kind, shadowCasters, casterSettings, lightMask,
    \* Shadow pass: shadowCasterBatches_ of every split, and ShadowScenePass::batchesDirty_.
    shadowBatches_, batchesDirty_,
    \* ScenePass: intermediate batches (drawables) of the frame.
    unlitBatches_, litBatches_,
    \* ScenePass: collected batches.
    unlitBaseBatches_, litBaseBatches_, lightBatches_,
    \* ScenePass: batches whose lookup missed.
    unlitBaseBatchesDirty_, litBaseBatchesDirty_, lightBatchesDirty_,
    \* ScenePass: the three caches.
    unlitBasePipelineStateCache_, litBasePipelineStateCache_, lightPipelineStateCache_,
    \* ScenePass: sorted batches handed to the renderer.
    sortedBatches_,
    \* Position of the main thread in the frame, and frames begun so far.
    pc, frame,
    \* ForEachParallel: the index every thread works on (0 if none), indices handed out.
    working, taken,
    \* Resolution loop: position in the dirty list, and whether the main thread is
    \* inside GetOrCreatePipelineState.
    cursor, creating

cacheVars == <<pipelineStateCache_, lastCall, resolved, lookedUp>>

sceneVars ==
    <<shape, litGeometries, pixelLights, mainLightIndex, lightHash,
      kind, shadowCasters, casterSettings, lightMask>>

shadowVars == <<shadowBatches_, batchesDirty_>>

VARIABLES
    \* DrawableProcessor, inputs of the frame: what is read of every drawable, the
    \* drawables the frustum query returned, and the shadow caster candidates every
    \* light processor goes through.
    drawableInput, frustumDrawables, casterCandidates, needAmbient_,
    \* DrawableProcessor: per drawable flags, per thread collections.
    isDrawableUpdated_, geometryFlags_, visibleGeometries_, visibleLightsTemp_,
    visibleLights_, geometryBatches_, queuedDrawableUpdates_, threadedGeometryUpdates_,
    \* UpdateBatches calls per drawable in the frame; drawables ProcessVisibleDrawable
    \* handled; drawables QueueDrawableUpdate was called for.
    updateBatchesCalls, visited, requested,
    \* Position of the main thread in the drawable stage, what every thread works on,
    \* and the elements of the current parallel loop handed out.
    dpc, dwork, dtaken,
    \* The light batches resolved one after the other against the light cache, each
    \* with whether the callback was invoked for it.
    keyBatches,
    \* LightProcessor, inputs: light type, requested cascades, cascade distances, near
    \* and far clip of the cull camera.
    lightInput,
    \* LightProcessor: numSplits_ is the number of active splits (numActiveSplits_ of
    \* LightProcessor.h); shadowMap_ is the texture of the shadow map (0: none);
    \* splits_ holds shadow casters, shadow map and Z range of every split.
    hasShadow_, numSplits_, shadowMap_, shadowMapSize_, splits_,
    \* Whether FinalizeShaderParameters cooked the shadow parameters.
    shadowParams_,
    \* Position of the light in its frame; whether the allocation of the frame failed;
    \* the splits that got a shadow map in the frame; the splits shadow batches were
    \* collected for in the frame.
    lpc, allocationFailed, regionsSet, shadowBatchSplits

VARIABLES
    \* Drawable::GetCastShadows of every drawable.
    castShadows,
    \* LightProcessor::tempShadowCasters_, and of every split its shadowCasters_ and
    \* the drawables of its shadowCasterBatches_.
    tempShadowCasters_, splitShadowCasters_, shadowCasterBatches_,
    \* What the octree and the frustum tests answered in the latest update of the light.
    casterQuery

VARIABLES
    \* SceneLightShadowSplit: focus parameters of the light, the view box of the
    \* frame, ortho size and aspect ratio of the shadow camera, and the position of
    \* the split in its frame.
    shadowCamera_,
    \* DrawableProcessor::sceneZRange_: the Z range of the visible geometries.
    sceneZRange_

VARIABLES
    \* Inputs of the visibility stage: the lights with a colour and an effective light
    \* mask, and what CalculateBoundingBoxZRange reads of every drawable.
    brightLights, boundingBox,
    \* DrawableProcessor::geometryZRanges_, sceneZRangeTemp_ and lightProcessors_, and
    \* the light processors of DrawableProcessor::lightProcessorCache_.
    geometryZRanges_, sceneZRangeTemp_, lightProcessors_, lightProcessorCache_

VARIABLES
    \* DrawableProcessor::geometryLighting_: the light indices every accumulator got;
    \* the errors logged by ProcessForwardLighting; the number of its calls and the
    \* light index of the latest one.
    geometryLighting_, lightingErrors, lightingCalls, lightIndex_,
    \* The parallel loop of ProcessForwardLighting: the lit geometries it goes through
    \* (none: no loop runs), the elements handed out, what every thread works on, and
    \* the number of loops started.
    litGeometries_, lightingTaken, lightingWork, lightingLoops

VARIABLES
    \* DrawableProcessor::lightProcessorsByShadowMapSize_ and the shadow map size of
    \* every light processor.
    lightProcessorsByShadowMapSize_, shadowMapSizes_,
    \* ProcessLights: the position of the calling thread, its index in the loop it
    \* runs, the elements of the parallel loop handed out, what every thread works on,
    \* and the calls the light processors received since ProcessLights was called.
    plc, pcursor, ptaken, pwork, lightEvents

VARIABLES
    \* RenderBufferManager::graphics_: render targets, depth-stencil and viewport of the
    \* graphics device; the errors SetRenderTargetsRect logged; the arguments of its
    \* latest call; the render targets and depth-stencil every Graphics::Clear issued
    \* by ClearOutputRect cleared.
    graphics_, renderErrors, renderCall, clearCommands

VARIABLES
    \* Inputs of DrawableProcessor::PreprocessShadowCasters for one split: the light
    \* (its type, and whether the shadow camera is orthographic, with its far clip),
    \* the sub-range of the split, the candidates, the bounding box of every drawable
    \* in light space, and whether its world bounding box is inside the frustum of
    \* the shadow camera.
    splitLight, frustumSubRange, splitCandidates, lightSpaceBoundingBox, insideShadowCamera,
    \* The shadowCasters list of the split, and the calls of PreprocessShadowCasters.
    splitCasters, preprocessCalls

VARIABLES
    \* Two states of a light as RecalculatePipelineStateHash reads them, and the
    \* pipeline state hashes calculated for them.
    lightStates, pipelineStateHashes

VARIABLES
    \* Drawable::GetUpdateGeometryType of every drawable; threadedGeometryUpdates_ and
    \* nonThreadedGeometryUpdates_ of the frame; where UpdateGeometries is; the positions
    \* of the threaded list that were handed out; the drawable every thread works on; the
    \* position in the main-thread list; the UpdateGeometry calls of the frame.
    updateGeometryType, geometryUpdates_, gpc, gtaken, gwork, gcursor, updateGeometryCalls

VARIABLES
    \* The technique found for every source batch of a drawable; passes_ of the drawable
    \* processor; geometryBatches_ of every pass; the results AddBatch returned; the
    \* batch loop of ProcessVisibleDrawable (position, isForwardLit, needAmbient); and
    \* the render flags it stores for the drawable.
    sourceTechniques, passes_, passBatches, addResults, batchLoop, drawableFlag

VARIABLES
    \* Whether the build defines URHO3D_OPENGL; Camera::GetFlipVertical of camera_;
    \* CameraProcessor::flipCamera_; the setting of the camera before the processor
    \* touched it; and the notifications the processor received.
    openGL, flipVertical_, flipCamera_, flipVerticalBefore, notifications

VARIABLES
    \* RenderBufferManager: viewportFlags_; substituteRenderBuffers_; the writeable and
    \* the readable color buffer; whether copyTexturePipelineState_ is set; whether
    \* the pipeline is between OnRenderBegin and OnRenderEnd; the calls of
    \* PrepareForColorReadWrite in the frame and the errors they logged; and the
    \* copies OnRenderEnd drew.
    viewportFlags_, substituteRenderBuffers_, writeableColorBuffer_, readableColorBuffer_,
    copyTexturePipelineState_, rendering, prepareCalls, prepareErrors, copyCommands

VARIABLES
    \* TextureRenderBuffer: bufferIsReady_, currentTexture_, currentSize_; whether the
    \* pipeline is between OnRenderBegin and OnRenderEnd, and the frames it began; the
    \* latest call of an accessor with its result; the accessor calls and the errors
    \* they logged.
    bufferIsReady_, currentTexture_, currentSize_, inFrame, renderedFrames, lastAccess,
    accessCalls, accessErrors

VARIABLES
    \* The lights ProcessForwardLighting handed to the accumulator of one lit geometry,
    \* each with the penalty it was accumulated with.
    accumulatedLights

VARIABLES
    \* SetupDirLightShadowCamera: the Z range of the split and the lit geometries of
    \* the latest call, the frustum volume the shadow box was fitted to, and the
    \* shadow box.
    setupInput, frustumVolume, shadowBox

drawableVars ==
    <<drawableInput, frustumDrawables, casterCandidates, needAmbient_, isDrawableUpdated_,
      geometryFlags_,
      visibleGeometries_, visibleLightsTemp_, visibleLights_, geometryBatches_,
      queuedDrawableUpdates_, threadedGeometryUpdates_, updateBatchesCalls, visited,
      requested, dpc, dwork, dtaken>>

casterVars ==
    <<castShadows, tempShadowCasters_, splitShadowCasters_, shadowCasterBatches_, casterQuery>>

lightVars ==
    <<lightInput, hasShadow_, numSplits_, shadowMap_, shadowMapSize_, splits_, shadowParams_,
      lpc, allocationFailed, regionsSet, shadowBatchSplits, casterVars>>

\* The variables of the stages beyond the scene passes.
\* The variables of the components beyond the light processor.
stageVars ==
    <<brightLights, boundingBox, geometryZRanges_, sceneZRangeTemp_, lightProcessors_,
      lightProcessorCache_>>

lightingVars ==
    <<geometryLighting_, lightingErrors, lightingCalls, lightIndex_, litGeometries_,
      lightingTaken, lightingWork, lightingLoops>>

processVars ==
    <<lightProcessorsByShadowMapSize_, shadowMapSizes_, plc, pcursor, ptaken, pwork,
      lightEvents>>

bufferVars == <<graphics_, renderErrors, renderCall, clearCommands>>

splitVars ==
    <<splitLight, frustumSubRange, splitCandidates, lightSpaceBoundingBox, insideShadowCamera,
      splitCasters, preprocessCalls>>

hashVars == <<lightStates, pipelineStateHashes>>

geometryVars ==
    <<updateGeometryType, geometryUpdates_, gpc, gtaken, gwork, gcursor, updateGeometryCalls>>

addBatchVars == <<sourceTechniques, passes_, passBatches, addResults, batchLoop, drawableFlag>>

cameraVars == <<openGL, flipVertical_, flipCamera_, flipVerticalBefore, notifications>>

colorVars ==
    <<viewportFlags_, substituteRenderBuffers_, writeableColorBuffer_, readableColorBuffer_,
      copyTexturePipelineState_, rendering, prepareCalls, prepareErrors, copyCommands>>

textureVars ==
    <<bufferIsReady_, currentTexture_, currentSize_, inFrame, renderedFrames, lastAccess,
      accessCalls, accessErrors>>

penaltyVars == <<accumulatedLights>>

focusVars == <<setupInput, frustumVolume, shadowBox>>

restVars == <<lightingVars, processVars, bufferVars, splitVars, hashVars, geometryVars, addBatchVars, cameraVars, colorVars, textureVars, penaltyVars, focusVars>>

laterVars == <<shadowCamera_, sceneZRange_, stageVars, restVars>>

beyondPass == <<drawableVars, keyBatches, lightVars, laterVars>>

passVars ==
    <<unlitBatches_, litBatches_, unlitBaseBatches_, litBaseBatches_, lightBatches_,
      unlitBaseBatchesDirty_, litBaseBatchesDirty_, lightBatchesDirty_,
      unlitBasePipelineStateCache_, litBasePipelineStateCache_, lightPipelineStateCache_,
      sortedBatches_, pc, frame, working, taken, cursor, creating>>

vars == <<cacheVars, createCalls, sceneVars, passVars, shadowVars, beyondPass>>

\* The variables of the components up to the light processor.
earlierVars ==
    <<cacheVars, createCalls, sceneVars, passVars, shadowVars, drawableVars, keyBatches,
      lightVars>>

\* What the steps of the forward pass, and what the calls on the cache, leave alone.
notForward == <<cacheVars, shadowVars, beyondPass>>
notCache == <<sceneVars, passVars, shadowVars, beyondPass>>

NoCall == [op |-> "none", key |-> MakeKey(0, 0, 0, 0, 0, 0), result |-> NullState]

NoCreateCalls == [k \in {} |-> 0]

CallCount(calls, key) == IF key \in DOMAIN calls THEN calls[key] ELSE 0

\* The callback was invoked once more for key.
CountCall(calls, key) ==
    [k \in DOMAIN calls \cup {key} |->
        IF k = key THEN MinOf(CallCount(calls, key) + 1, CallCap) ELSE calls[k]]

Record(map, key, state) ==
    [k \in DOMAIN map \cup {key} |-> IF k = key THEN state ELSE map[k]]

NoneResolved == [k \in {} |-> NullState]

NoneLookedUp == [k \in {} |-> [result |-> NullState, count |-> 0]]

\* The cache with no call made on it yet.
CacheIdle ==
    /\ pipelineStateCache_ = EmptyCache
    /\ lastCall = NoCall
    /\ resolved = NoneResolved
    /\ lookedUp = NoneLookedUp

EmptyPerThread == [t \in Threads |-> <<>>]

NothingSorted ==
    [unlitBase |-> <<>>, litBase |-> <<>>, light |-> <<>>, shadow |-> [s \in Splits |-> <<>>]]

\* The scene passes before their first frame.
PassIdle ==
    /\ unlitBatches_ = <<>> /\ litBatches_ = <<>>
    /\ unlitBaseBatches_ = <<>> /\ litBaseBatches_ = <<>>
    /\ lightBatches_ = EmptyPerThread
    /\ unlitBaseBatchesDirty_ = EmptyPerThread
    /\ litBaseBatchesDirty_ = EmptyPerThread
    /\ lightBatchesDirty_ = EmptyPerThread
    /\ unlitBasePipelineStateCache_ = EmptyCache
    /\ litBasePipelineStateCache_ = EmptyCache
    /\ lightPipelineStateCache_ = EmptyCache
    /\ sortedBatches_ = NothingSorted
    /\ pc = "idle" /\ frame = 0
    /\ working = [t \in Threads |-> 0] /\ taken = {}
    /\ cursor = 1 /\ creating = FALSE
    /\ shadowBatches_ = [s \in Splits |-> <<>>]
    /\ batchesDirty_ = EmptyPerThread

\* A scene the passes of the cache specification do not look at.
SceneIdle ==
    /\ shape = [d \in Drawables |-> BaseShape]
    /\ litGeometries = {}
    /\ pixelLights = [d \in Drawables |-> <<>>]
    /\ mainLightIndex = NoLightIndex
    /\ lightHash = [l \in Lights |-> l]
    /\ kind = "none"
    /\ shadowCasters = [s \in Splits |-> <<>>]
    /\ casterSettings = [d \in Drawables |-> DefaultCaster]
    /\ lightMask = 1

\* The drawables of the drawable stage, the light processors updated in parallel,
\* and the longest list of shadow caster candidates of a light processor.
NumObjects == 2
NumLightTasks == 2
MaxCandidates == 2
Objects == 1 .. NumObjects
LightTasks == 1 .. NumLightTasks
\* A thread with no element of a parallel loop at hand.
NoWork == [task |-> 0, pos |-> 0]

\* What the drawable stage reads of a drawable.
DrawableInput(isLight, drawDistance, distance, technique) ==
    [isLight |-> isLight, drawDistance |-> drawDistance, distance |-> distance,
     technique |-> technique]

\* The drawable stage before its first frame, with no drawable in the scene.
DrawableIdle ==
    /\ drawableInput = [d \in Objects |-> DrawableInput(FALSE, 0, 0, "none")]
    /\ frustumDrawables = <<>>
    /\ casterCandidates = [task \in LightTasks |-> <<>>]
    /\ needAmbient_ = FALSE
    /\ isDrawableUpdated_ = [d \in Objects |-> FALSE]
    /\ geometryFlags_ = [d \in Objects |-> {}]
    /\ visibleGeometries_ = EmptyPerThread
    /\ visibleLightsTemp_ = EmptyPerThread
    /\ visibleLights_ = <<>>
    /\ geometryBatches_ = EmptyPerThread
    /\ queuedDrawableUpdates_ = EmptyPerThread
    /\ threadedGeometryUpdates_ = EmptyPerThread
    /\ updateBatchesCalls = [d \in Objects |-> 0]
    /\ visited = {}
    /\ requested = {}
    /\ dpc = "idle"
    /\ dwork = [t \in Threads |-> NoWork]
    /\ dtaken = {}
    /\ keyBatches = <<>>

\* The cascades a directional light may request, the splits of a light processor
\* (MAX_CUBEMAP_FACES), and the largest distance.
MaxCascades == 3
MAX_CUBEMAP_FACES == 6
MaxDistance == 4
SplitIndices == 1 .. MAX_CUBEMAP_FACES
NoShadowMap == 0

\* What SetupShadowCameras reads of the light and of the cull camera.
LightInput(lightType, numShadowSplits, cascadeSplits, nearClip, farClip) ==
    [lightType |-> lightType, numShadowSplits |-> numShadowSplits,
     cascadeSplits |-> cascadeSplits, nearClip |-> nearClip, farClip |-> farClip]

NoCascade == [i \in 1 .. MaxCascades |-> 0]

\* A split of a light processor never updated.
EmptySplit == [shadowCasters_ |-> FALSE, shadowMap_ |-> NoShadowMap, zRange_ |-> <<0, 0>>]

\* The light processor before its first frame.
\* The answers of the octree query and of the frustum tests for one update of a light:
\* the drawables inside the volume of the light or of the shadow camera, the
\* splits that are not skipped, and per drawable the splits PreprocessShadowCasters
\* keeps it in.
CasterQuery(inside, reached, kept) == [inside |-> inside, reached |-> reached, kept |-> kept]

NoQuery == CasterQuery({}, {}, [d \in Drawables |-> {}])

NoCasters == [i \in SplitIndices |-> <<>>]

CasterIdle ==
    /\ castShadows = [d \in Drawables |-> TRUE]
    /\ tempShadowCasters_ = <<>>
    /\ splitShadowCasters_ = NoCasters
    /\ shadowCasterBatches_ = NoCasters
    /\ casterQuery = NoQuery

LightIdle ==
    /\ CasterIdle
    /\ lightInput = LightInput("spot", 1, NoCascade, 1, 1)
    /\ hasShadow_ = FALSE
    /\ numSplits_ = 0
    /\ shadowMap_ = NoShadowMap
    /\ shadowMapSize_ = <<0, 0>>
    /\ splits_ = [i \in SplitIndices |-> EmptySplit]
    /\ shadowParams_ = FALSE
    /\ lpc = "idle"
    /\ allocationFailed = FALSE
    /\ regionsSet = {}
    /\ shadowBatchSplits = {}

\* A shadow camera never set up.
NoFocus == [quantize_ |-> 1, minView_ |-> 1, nonUniform_ |-> FALSE, focus_ |-> FALSE]

ShadowCameraIdle ==
    shadowCamera_ = [parameters |-> NoFocus, viewBox |-> <<1, 1>>, orthoSize_ |-> 1,
                     aspectRatio_ |-> <<1, 1>>, setupSize |-> <<1, 1>>, pc |-> "idle"]

\* An invalid FloatRange: nothing is in it.
NoRange == <<1, 0>>

SceneZRangeIdle == sceneZRange_ = NoRange

\* A bounding box as CalculateBoundingBoxZRange reads it: the view space Z of its
\* centre, the extent of its half size along the view direction, and the length of
\* its half size.
BoundingBox(viewCenterZ, viewEdgeZ, edgeLength) ==
    [viewCenterZ |-> viewCenterZ, viewEdgeZ |-> viewEdgeZ, edgeLength |-> edgeLength]

\* No light processor of the cache.
NoProcessor == 0

StageIdle ==
    /\ brightLights = {}
    /\ boundingBox = [d \in Objects |-> BoundingBox(2, 1, 1)]
    /\ geometryZRanges_ = [d \in Objects |-> NoRange]
    /\ sceneZRangeTemp_ = [t \in Threads |-> NoRange]
    /\ lightProcessors_ = <<>>
    /\ lightProcessorCache_ = [light \in Objects |-> NoProcessor]

\* No parallel loop of ProcessForwardLighting runs.
NoLoop == <<0>>

LightingIdle ==
    /\ geometryLighting_ = [d \in Objects |-> {}]
    /\ lightingErrors = 0
    /\ lightingCalls = 0
    /\ lightIndex_ = 0
    /\ litGeometries_ = NoLoop
    /\ lightingTaken = {}
    /\ lightingWork = [t \in Threads |-> 0]
    /\ lightingLoops = 0

ProcessIdle ==
    /\ lightProcessorsByShadowMapSize_ = <<>>
    /\ shadowMapSizes_ = [processor \in Objects |-> <<0, 0>>]
    /\ plc = "idle"
    /\ pcursor = 0
    /\ ptaken = {}
    /\ pwork = [t \in Threads |-> 0]
    /\ lightEvents = <<>>

\* The render targets of the graphics device.
MAX_RENDERTARGETS == 4
\* No render surface: the backbuffer.
NoSurface == 0
\* No render buffer.
NoBuffer == [surface |-> NoSurface, viewportRect |-> 0, compatible |-> "never"]
\* IntRect::ZERO.
ZeroRect == 0

RenderCall(viewportRect, depthStencilBuffer, colorBuffers) ==
    [viewportRect |-> viewportRect, depthStencilBuffer |-> depthStencilBuffer,
     colorBuffers |-> colorBuffers]

BufferIdle ==
    /\ graphics_ = [renderTargets |-> [i \in 1 .. MAX_RENDERTARGETS |-> NoSurface],
                    depthStencil |-> NoSurface, viewport |-> ZeroRect]
    /\ renderErrors = 0
    /\ renderCall = RenderCall(ZeroRect, NoBuffer, <<>>)
    /\ clearCommands = <<>>

\* A light as PreprocessShadowCasters reads it.
SplitLight(lightType, orthographic, farClip) ==
    [lightType |-> lightType, orthographic |-> orthographic, farClip |-> farClip]

\* An axis-aligned box of the light space, reduced to the X axis and the Z axis
\* (the direction of the light).
Box(min, max) == [min |-> min, max |-> max]

SplitIdle ==
    /\ splitLight = SplitLight("directional", TRUE, 0)
    /\ frustumSubRange = NoRange
    /\ splitCandidates = <<>>
    /\ lightSpaceBoundingBox = [d \in Objects |-> Box(<<0, 0>>, <<0, 0>>)]
    /\ insideShadowCamera = [d \in Objects |-> FALSE]
    /\ splitCasters = <<>>
    /\ preprocessCalls = 0

HashIdle == lightStates = <<>> /\ pipelineStateHashes = <<>>

GeometryIdle ==
    /\ updateGeometryType = [d \in Objects |-> "UPDATE_NONE"]
    /\ geometryUpdates_ = [threaded |-> EmptyPerThread, nonThreaded |-> EmptyPerThread]
    /\ gpc = "queueing"
    /\ gtaken = {}
    /\ gwork = [t \in Threads |-> 0]
    /\ gcursor = 1
    /\ updateGeometryCalls = <<>>

AddBatchIdle ==
    /\ sourceTechniques = <<>>
    /\ passes_ = <<>>
    /\ passBatches = <<>>
    /\ addResults = <<>>
    /\ batchLoop = [i |-> 1, p |-> 1, isForwardLit |-> FALSE, needAmbient |-> FALSE]
    /\ drawableFlag = {}

CameraIdle ==
    /\ openGL = FALSE
    /\ flipVertical_ = FALSE
    /\ flipCamera_ = FALSE
    /\ flipVerticalBefore = FALSE
    /\ notifications = <<>>

ColorIdle ==
    /\ viewportFlags_ = {}
    /\ substituteRenderBuffers_ = <<"null", "null">>
    /\ writeableColorBuffer_ = "null"
    /\ readableColorBuffer_ = "null"
    /\ copyTexturePipelineState_ = FALSE
    /\ rendering = FALSE
    /\ prepareCalls = 0
    /\ prepareErrors = 0
    /\ copyCommands = <<>>

TextureIdle ==
    /\ bufferIsReady_ = FALSE
    /\ currentTexture_ = 0
    /\ currentSize_ = 0
    /\ inFrame = FALSE
    /\ renderedFrames = 0
    /\ lastAccess = [accessor |-> "none", result |-> 0]
    /\ accessCalls = 0
    /\ accessErrors = 0

PenaltyIdle == accumulatedLights = <<>>

FocusIdle ==
    /\ setupInput = [zRange_ |-> NoRange, litGeometries |-> <<>>]
    /\ frustumVolume = Box(<<0, 0>>, <<0, 0>>)
    /\ shadowBox = Box(<<0, 0>>, <<0, 0>>)

\* Every later group but the named one is in its state after construction.
RestIdleExcept(group) ==
    /\ IF group = "lighting" THEN TRUE ELSE LightingIdle
    /\ IF group = "process" THEN TRUE ELSE ProcessIdle
    /\ IF group = "buffer" THEN TRUE ELSE BufferIdle
    /\ IF group = "split" THEN TRUE ELSE SplitIdle
    /\ IF group = "hash" THEN TRUE ELSE HashIdle
    /\ IF group = "geometry" THEN TRUE ELSE GeometryIdle
    /\ IF group = "addBatch" THEN TRUE ELSE AddBatchIdle
    /\ IF group = "camera" THEN TRUE ELSE CameraIdle
    /\ IF group = "color" THEN TRUE ELSE ColorIdle
    /\ IF group = "texture" THEN TRUE ELSE TextureIdle
    /\ IF group = "penalty" THEN TRUE ELSE PenaltyIdle
    /\ IF group = "focus" THEN TRUE ELSE FocusIdle

RestIdle == RestIdleExcept("none")

LaterIdle == ShadowCameraIdle /\ SceneZRangeIdle /\ StageIdle /\ RestIdle

EarlierIdle ==
    /\ CacheIdle
    /\ createCalls = NoCreateCalls
    /\ SceneIdle
    /\ PassIdle
    /\ DrawableIdle
    /\ LightIdle

CacheInit ==
    /\ CacheIdle
    /\ createCalls = NoCreateCalls
    /\ SceneIdle
    /\ PassIdle
    /\ DrawableIdle
    /\ LightIdle
    /\ LaterIdle

\* Mutant: the lookup uses the inserting operator [] of the map.
CallGetPipelineState_Inserting(key) ==
    /\ lastCall' = [op |-> "GetPipelineState", key |-> key,
                    result |-> GetPipelineState(pipelineStateCache_, key)]
    /\ lookedUp' = Record(lookedUp, key, [result |-> lastCall'.result, count |-> 1])
    /\ pipelineStateCache_' =
            IF CacheHas(pipelineStateCache_, key) THEN pipelineStateCache_
            ELSE Record(pipelineStateCache_, key, CachedBatchState(NullState, TRUE))
    /\ UNCHANGED <<createCalls, resolved, notCache>>

\* A thread calls GetPipelineState(key).
CallGetPipelineState(key) ==
    /\ lastCall' = [op |-> "GetPipelineState", key |-> key,
                    result |-> GetPipelineState(pipelineStateCache_, key)]
    /\ lookedUp' = Record(lookedUp, key,
            [result |-> lastCall'.result,
             count |-> MinOf(2, 1 + (IF key \in DOMAIN lookedUp THEN lookedUp[key].count ELSE 0))])
    /\ UNCHANGED <<pipelineStateCache_, createCalls, resolved, notCache>>

\* The resolving thread calls GetOrCreatePipelineState(key, ctx, callback);
\* created is what the callback returns if invoked.
CallGetOrCreatePipelineState(key, created) ==
    /\ pipelineStateCache_' = CacheAfterGetOrCreate(pipelineStateCache_, key, created)
    /\ createCalls' = IF CacheMiss(pipelineStateCache_, key)
                      THEN CountCall(createCalls, <<"shadow", key>>) ELSE createCalls
    /\ lastCall' = [op |-> "GetOrCreatePipelineState", key |-> key,
                    result |-> GetOrCreatePipelineState(pipelineStateCache_, key, created)]
    /\ resolved' = Record(resolved, key, lastCall'.result)
    /\ lookedUp' = NoneLookedUp
    /\ UNCHANGED <<notCache>>

CallInvalidate ==
    /\ pipelineStateCache_' = Invalidate(pipelineStateCache_)
    /\ lastCall' = [op |-> "Invalidate", key |-> NoCall.key, result |-> NullState]
    /\ createCalls' = NoCreateCalls
    /\ resolved' = NoneResolved
    /\ lookedUp' = NoneLookedUp
    /\ UNCHANGED <<notCache>>

CacheNext ==
    \/ \E key \in CacheKeys : CallGetPipelineState(key)
    \/ \E key \in CacheKeys, created \in CallbackResults :
            CallGetOrCreatePipelineState(key, created)
    \/ CallInvalidate

SpecCache == CacheInit /\ [][CacheNext]_vars

BaseSceneBatch(lightIndex, drawable, pass) ==
    [lightIndex_ |-> lightIndex, drawable_ |-> drawable,
     geometryType_ |-> shape[drawable].geometryType,
     geometry_ |-> shape[drawable].geometry,
     material_ |-> shape[drawable].material,
     pass_ |-> pass, pipelineState_ |-> NullState]

\* A default constructed BaseSceneBatch (resize).
DefaultBatch ==
    [lightIndex_ |-> NoLightIndex, drawable_ |-> 0, geometryType_ |-> 0, geometry_ |-> 0,
     material_ |-> 0, pass_ |-> 0, pipelineState_ |-> NullState]

\* ScenePipelineStateKey{ batch, lightHash }
BatchKey(batch, hash) ==
    MakeKey(shape[batch.drawable_].drawableHash, hash, batch.geometryType_,
            batch.geometry_, batch.material_, batch.pass_)

\* sceneLights[lightIndex]->GetPipelineStateHash(), 0 without light.
LightHashOf(lightIndex) == IF lightIndex = NoLightIndex THEN 0 ELSE lightHash[lightIndex]

WithState(batch, state) == [batch EXCEPT !.pipelineState_ = state]

\* Iteration order of a per-thread collection: thread by thread, <<thread, element>>.
RECURSIVE FlatFrom(_, _)
FlatFrom(perThread, t) ==
    IF t >= NumThreads THEN <<>>
    ELSE [i \in 1 .. Len(perThread[t]) |-> <<t, perThread[t][i]>>] \o FlatFrom(perThread, t + 1)

Flat(perThread) == FlatFrom(perThread, 0)

\* WorkQueueVector::Insert / PushBack on the calling thread.
PushBack(perThread, t, element) == [perThread EXCEPT ![t] = Append(@, element)]

Elements(seq) == { seq[i] : i \in 1 .. Len(seq) }

\* The drawables of a set as a sequence in ascending order.
RECURSIVE Ascending(_)
Ascending(set) ==
    IF set = {} THEN <<>>
    ELSE LET m == CHOOSE x \in set : \A y \in set : x <= y
         IN <<m>> \o Ascending(set \ {m})

(***************************************************************************)
(* ScenePass: frame begin and input of the frame.                          *)
(***************************************************************************)
\* Mutant: BeginFrame leaves the light batches of the frame before.
BeginFrame_KeepingLightBatches ==
    /\ kind = "forward"
    /\ pc \in {"idle", "sorted"}
    /\ frame < MaxFrames
    /\ frame' = frame + 1
    /\ unlitBatches_' = <<>> /\ litBatches_' = <<>>
    /\ unlitBaseBatchesDirty_' = EmptyPerThread
    /\ litBaseBatchesDirty_' = EmptyPerThread
    /\ lightBatchesDirty_' = EmptyPerThread
    /\ unlitBaseBatches_' = <<>> /\ litBaseBatches_' = <<>>
    /\ pc' = "begun"
    /\ UNCHANGED <<notForward, createCalls, sceneVars, sortedBatches_, working, taken,
                   cursor, creating, unlitBasePipelineStateCache_,
                   litBasePipelineStateCache_, lightPipelineStateCache_, lightBatches_>>

\* ScenePass::BeginFrame
BeginFrame ==
    /\ kind = "forward"
    /\ pc \in {"idle", "sorted"}
    /\ frame < MaxFrames
    /\ frame' = frame + 1
    /\ unlitBatches_' = <<>> /\ litBatches_' = <<>>
    /\ unlitBaseBatchesDirty_' = EmptyPerThread
    /\ litBaseBatchesDirty_' = EmptyPerThread
    /\ lightBatchesDirty_' = EmptyPerThread
    /\ unlitBaseBatches_' = <<>> /\ litBaseBatches_' = <<>>
    /\ lightBatches_' = EmptyPerThread
    /\ pc' = "begun"
    /\ UNCHANGED <<notForward, createCalls, sceneVars, sortedBatches_, working, taken,
                   cursor, creating, unlitBasePipelineStateCache_,
                   litBasePipelineStateCache_, lightPipelineStateCache_>>

\* The drawable stage adds the source batch of every drawable of the frame: to the
\* lit batches if its technique has a light pass, to the unlit ones otherwise.
AddSourceBatches ==
    /\ pc = "begun"
    /\ unlitBatches_' = Ascending(Drawables \ litGeometries)
    /\ litBatches_' = Ascending(litGeometries)
    /\ pc' = "added"
    /\ UNCHANGED <<notForward, createCalls, sceneVars, unlitBaseBatches_, litBaseBatches_,
                   lightBatches_, unlitBaseBatchesDirty_, litBaseBatchesDirty_,
                   lightBatchesDirty_, unlitBasePipelineStateCache_,
                   litBasePipelineStateCache_, lightPipelineStateCache_, sortedBatches_,
                   frame, working, taken, cursor, creating>>

\* ScenePass::InvalidatePipelineStateCache
InvalidatePipelineStateCache ==
    /\ kind = "forward"
    /\ pc = "sorted"
    /\ unlitBasePipelineStateCache_' = Invalidate(unlitBasePipelineStateCache_)
    /\ litBasePipelineStateCache_' = Invalidate(litBasePipelineStateCache_)
    /\ lightPipelineStateCache_' = Invalidate(lightPipelineStateCache_)
    /\ createCalls' = NoCreateCalls
    /\ pc' = "idle"
    /\ UNCHANGED <<notForward, sceneVars, unlitBatches_, litBatches_, unlitBaseBatches_,
                   litBaseBatches_, lightBatches_, unlitBaseBatchesDirty_,
                   litBaseBatchesDirty_, lightBatchesDirty_, sortedBatches_, frame,
                   working, taken, cursor, creating>>

\* Between two frames a drawable gets another material.
SetMaterial(d, material) ==
    /\ pc = "sorted"
    /\ shape[d].material # material
    /\ shape' = [shape EXCEPT ![d].material = material]
    /\ pc' = "idle"
    /\ UNCHANGED <<notForward, createCalls, litGeometries, pixelLights, mainLightIndex,
                   lightHash, kind, shadowCasters, casterSettings, lightMask, unlitBatches_, litBatches_, unlitBaseBatches_,
                   litBaseBatches_, lightBatches_, unlitBaseBatchesDirty_,
                   litBaseBatchesDirty_, lightBatchesDirty_, unlitBasePipelineStateCache_,
                   litBasePipelineStateCache_, lightPipelineStateCache_, sortedBatches_,
                   frame, working, taken, cursor, creating>>

(***************************************************************************)
(* ForEachParallel: every thread takes indices until none is left.         *)
(***************************************************************************)
LoopSize ==
    IF pc = "unlitLoop" THEN Len(unlitBatches_)
    ELSE IF pc = "litLoop" THEN Len(litBatches_)
    ELSE NumSplits

\* A thread of the work queue takes the next element of the collection.
TakeIndex(t, index) ==
    /\ pc \in {"unlitLoop", "litLoop", "shadowLoop"}
    /\ working[t] = 0
    /\ index \in (1 .. LoopSize) \ taken
    /\ working' = [working EXCEPT ![t] = index]
    /\ taken' = taken \cup {index}
    /\ UNCHANGED <<notForward, createCalls, sceneVars, unlitBatches_, litBatches_,
                   unlitBaseBatches_, litBaseBatches_, lightBatches_,
                   unlitBaseBatchesDirty_, litBaseBatchesDirty_, lightBatchesDirty_,
                   unlitBasePipelineStateCache_, litBasePipelineStateCache_,
                   lightPipelineStateCache_, sortedBatches_, pc, frame, cursor, creating>>

\* ForEachParallel returns when every element was processed.
LoopJoined == taken = 1 .. LoopSize /\ \A t \in Threads : working[t] = 0

(***************************************************************************)
(* ScenePass::CollectUnlitBatches                                          *)
(***************************************************************************)
CollectUnlitBegin ==
    /\ pc = "added"
    /\ unlitBaseBatches_' = [i \in 1 .. Len(unlitBatches_) |-> DefaultBatch]
    /\ pc' = "unlitLoop"
    /\ taken' = {}
    /\ UNCHANGED <<notForward, createCalls, sceneVars, unlitBatches_, litBatches_,
                   litBaseBatches_, lightBatches_, unlitBaseBatchesDirty_,
                   litBaseBatchesDirty_, lightBatchesDirty_, unlitBasePipelineStateCache_,
                   litBasePipelineStateCache_, lightPipelineStateCache_, sortedBatches_,
                   frame, working, cursor, creating>>

\* Mutant: no batch is recorded as dirty.
IsDirty_Never(state) == FALSE

\* Whether the lambda records the batch as dirty.
IsDirty(state) == state = NullState

\* Mutant: the lambda creates the missing state itself, on the worker thread.
UnlitLambda_Creating(t) ==
    /\ pc = "unlitLoop"
    /\ working[t] # 0
    /\ LET index == working[t]
           sceneBatch == BaseSceneBatch(NoLightIndex, unlitBatches_[index], UnlitBasePass)
           key == BatchKey(sceneBatch, 0)
           state == GetOrCreatePipelineState(unlitBasePipelineStateCache_, key, 1)
       IN /\ unlitBaseBatches_' = [unlitBaseBatches_ EXCEPT ![index] = WithState(sceneBatch, state)]
          /\ unlitBasePipelineStateCache_' =
                CacheAfterGetOrCreate(unlitBasePipelineStateCache_, key, 1)
    /\ working' = [working EXCEPT ![t] = 0]
    /\ UNCHANGED <<notForward, createCalls, sceneVars, unlitBatches_, litBatches_,
                   litBaseBatches_, lightBatches_, unlitBaseBatchesDirty_,
                   litBaseBatchesDirty_, lightBatchesDirty_,
                   litBasePipelineStateCache_, lightPipelineStateCache_, sortedBatches_,
                   pc, frame, taken, cursor, creating>>

\* The lambda of the parallel loop on the element the thread took.
UnlitLambda(t) ==
    /\ pc = "unlitLoop"
    /\ working[t] # 0
    /\ LET index == working[t]
           sceneBatch == BaseSceneBatch(NoLightIndex, unlitBatches_[index], UnlitBasePass)
           state == GetPipelineState(unlitBasePipelineStateCache_, BatchKey(sceneBatch, 0))
       IN /\ unlitBaseBatches_' = [unlitBaseBatches_ EXCEPT ![index] = WithState(sceneBatch, state)]
          /\ unlitBaseBatchesDirty_' =
                IF IsDirty(state) THEN PushBack(unlitBaseBatchesDirty_, t, index)
                ELSE unlitBaseBatchesDirty_
    /\ working' = [working EXCEPT ![t] = 0]
    /\ UNCHANGED <<notForward, createCalls, sceneVars, unlitBatches_, litBatches_,
                   litBaseBatches_, lightBatches_, litBaseBatchesDirty_, lightBatchesDirty_,
                   unlitBasePipelineStateCache_, litBasePipelineStateCache_,
                   lightPipelineStateCache_, sortedBatches_, pc, frame, taken, cursor,
                   creating>>

UnlitJoin ==
    /\ pc = "unlitLoop"
    /\ LoopJoined
    /\ pc' = "unlitResolve"
    /\ cursor' = 1
    /\ UNCHANGED <<notForward, createCalls, sceneVars, unlitBatches_, litBatches_,
                   unlitBaseBatches_, litBaseBatches_, lightBatches_,
                   unlitBaseBatchesDirty_, litBaseBatchesDirty_, lightBatchesDirty_,
                   unlitBasePipelineStateCache_, litBasePipelineStateCache_,
                   lightPipelineStateCache_, sortedBatches_, frame, working, taken,
                   creating>>

\* The dirty list the resolution loop of the current phase walks through.
CurrentDirty ==
    IF pc = "unlitResolve" THEN Flat(unlitBaseBatchesDirty_)
    ELSE IF pc = "litResolveBase" THEN Flat(litBaseBatchesDirty_)
    ELSE IF pc = "litResolveLight" THEN Flat(lightBatchesDirty_)
    ELSE IF pc = "shadowResolve" THEN Flat(batchesDirty_)
    ELSE <<>>

\* The main thread enters GetOrCreatePipelineState for the next dirty batch.
ResolveBegin ==
    /\ pc \in {"unlitResolve", "litResolveBase", "litResolveLight", "shadowResolve"}
    /\ ~creating
    /\ cursor <= Len(CurrentDirty)
    /\ creating' = TRUE
    /\ UNCHANGED <<notForward, createCalls, sceneVars, unlitBatches_, litBatches_,
                   unlitBaseBatches_, litBaseBatches_, lightBatches_,
                   unlitBaseBatchesDirty_, litBaseBatchesDirty_, lightBatchesDirty_,
                   unlitBasePipelineStateCache_, litBasePipelineStateCache_,
                   lightPipelineStateCache_, sortedBatches_, pc, frame, working, taken,
                   cursor>>

\* What the callback of the scene pass may return for a key: the pipeline state, or
\* nullptr if it could not be created. It is invoked on a miss only.
Created(cache, key) == IF CacheMiss(cache, key) THEN {NullState, 1} ELSE {NullState}

CountIfMiss(cache, name, key) ==
    IF CacheMiss(cache, key) THEN CountCall(createCalls, <<name, key>>) ELSE createCalls

\* GetOrCreatePipelineState returns for a dirty unlit base batch.
UnlitResolve ==
    /\ pc = "unlitResolve"
    /\ creating
    /\ LET index == CurrentDirty[cursor][2]
           sceneBatch == unlitBaseBatches_[index]
           key == BatchKey(sceneBatch, 0)
       IN \E created \in Created(unlitBasePipelineStateCache_, key) :
            /\ unlitBasePipelineStateCache_' =
                    CacheAfterGetOrCreate(unlitBasePipelineStateCache_, key, created)
            /\ unlitBaseBatches_' = [unlitBaseBatches_ EXCEPT ![index] =
                    WithState(@, GetOrCreatePipelineState(unlitBasePipelineStateCache_, key, created))]
            /\ createCalls' = CountIfMiss(unlitBasePipelineStateCache_, "unlitBase", key)
    /\ cursor' = cursor + 1
    /\ creating' = FALSE
    /\ UNCHANGED <<notForward, sceneVars, unlitBatches_, litBatches_, litBaseBatches_,
                   lightBatches_, unlitBaseBatchesDirty_, litBaseBatchesDirty_,
                   lightBatchesDirty_, litBasePipelineStateCache_,
                   lightPipelineStateCache_, sortedBatches_, pc, frame, working, taken>>

(***************************************************************************)
(* ScenePass::CollectLitBatches                                            *)
(***************************************************************************)
CollectLitBegin ==
    /\ pc = "unlitResolve"
    /\ ~creating
    /\ cursor > Len(CurrentDirty)
    /\ litBaseBatches_' = [i \in 1 .. Len(litBatches_) |-> DefaultBatch]
    /\ pc' = "litLoop"
    /\ taken' = {}
    /\ UNCHANGED <<notForward, createCalls, sceneVars, unlitBatches_, litBatches_,
                   unlitBaseBatches_, lightBatches_, unlitBaseBatchesDirty_,
                   litBaseBatchesDirty_, lightBatchesDirty_, unlitBasePipelineStateCache_,
                   litBasePipelineStateCache_, lightPipelineStateCache_, sortedBatches_,
                   frame, working, cursor, creating>>

\* Mutant: every drawable with a pixel light gets a lit base.
HasLitBase_AnyPixelLight(d) == pixelLights[d] # <<>>

\* Whether the first ranked pixel light of the drawable is the main light.
HasLitBase(d) == pixelLights[d] # <<>> /\ pixelLights[d][1] = mainLightIndex

\* The additive batch of sceneBatch for one more pixel light, looked up.
LightBatchOf(sceneBatch, lightIndex) ==
    LET lightBatch == [sceneBatch EXCEPT !.lightIndex_ = lightIndex, !.pass_ = LightPass]
    IN WithState(lightBatch,
            GetPipelineState(lightPipelineStateCache_, BatchKey(lightBatch, LightHashOf(lightIndex))))

\* The lambda of the parallel loop on the element the thread took.
LitLambda(t) ==
    /\ pc = "litLoop"
    /\ working[t] # 0
    /\ LET index == working[t]
           d == litBatches_[index]
           hasLitBase == HasLitBase(d)
           baseLightIndex == IF hasLitBase THEN mainLightIndex ELSE NoLightIndex
           baseLightHash == IF hasLitBase THEN LightHashOf(mainLightIndex) ELSE 0
           base == BaseSceneBatch(baseLightIndex, d, LitBasePass)
           sceneBatch == WithState(base,
                GetPipelineState(litBasePipelineStateCache_, BatchKey(base, baseLightHash)))
           first == IF hasLitBase THEN 2 ELSE 1
           added == [k \in 1 .. (Len(pixelLights[d]) + 1 - first) |->
                        LightBatchOf(sceneBatch, pixelLights[d][first + k - 1])]
           offset == Len(lightBatches_[t])
           dirty == SelectSeq([k \in 1 .. Len(added) |-> k],
                              LAMBDA k : IsDirty(added[k].pipelineState_))
       IN /\ litBaseBatches_' = [litBaseBatches_ EXCEPT ![index] = sceneBatch]
          /\ litBaseBatchesDirty_' =
                IF IsDirty(sceneBatch.pipelineState_) THEN PushBack(litBaseBatchesDirty_, t, index)
                ELSE litBaseBatchesDirty_
          /\ lightBatches_' = [lightBatches_ EXCEPT ![t] = @ \o added]
          /\ lightBatchesDirty_' = [lightBatchesDirty_ EXCEPT ![t] =
                @ \o [k \in 1 .. Len(dirty) |-> offset + dirty[k]]]
    /\ working' = [working EXCEPT ![t] = 0]
    /\ UNCHANGED <<notForward, createCalls, sceneVars, unlitBatches_, litBatches_,
                   unlitBaseBatches_, unlitBaseBatchesDirty_,
                   unlitBasePipelineStateCache_, litBasePipelineStateCache_,
                   lightPipelineStateCache_, sortedBatches_, pc, frame, taken, cursor,
                   creating>>

LitJoin ==
    /\ pc = "litLoop"
    /\ LoopJoined
    /\ pc' = "litResolveBase"
    /\ cursor' = 1
    /\ UNCHANGED <<notForward, createCalls, sceneVars, unlitBatches_, litBatches_,
                   unlitBaseBatches_, litBaseBatches_, lightBatches_,
                   unlitBaseBatchesDirty_, litBaseBatchesDirty_, lightBatchesDirty_,
                   unlitBasePipelineStateCache_, litBasePipelineStateCache_,
                   lightPipelineStateCache_, sortedBatches_, frame, working, taken,
                   creating>>

\* GetOrCreatePipelineState returns for a dirty lit base batch.
LitBaseResolve ==
    /\ pc = "litResolveBase"
    /\ creating
    /\ LET index == CurrentDirty[cursor][2]
           sceneBatch == litBaseBatches_[index]
           key == BatchKey(sceneBatch, LightHashOf(sceneBatch.lightIndex_))
       IN \E created \in Created(litBasePipelineStateCache_, key) :
            /\ litBasePipelineStateCache_' =
                    CacheAfterGetOrCreate(litBasePipelineStateCache_, key, created)
            /\ litBaseBatches_' = [litBaseBatches_ EXCEPT ![index] =
                    WithState(@, GetOrCreatePipelineState(litBasePipelineStateCache_, key, created))]
            /\ createCalls' = CountIfMiss(litBasePipelineStateCache_, "litBase", key)
    /\ cursor' = cursor + 1
    /\ creating' = FALSE
    /\ UNCHANGED <<notForward, sceneVars, unlitBatches_, litBatches_, unlitBaseBatches_,
                   lightBatches_, unlitBaseBatchesDirty_, litBaseBatchesDirty_,
                   lightBatchesDirty_, unlitBasePipelineStateCache_,
                   lightPipelineStateCache_, sortedBatches_, pc, frame, working, taken>>

\* The base pipeline states are resolved, the light ones come next.
LitBaseResolved ==
    /\ pc = "litResolveBase"
    /\ ~creating
    /\ cursor > Len(CurrentDirty)
    /\ pc' = "litResolveLight"
    /\ cursor' = 1
    /\ UNCHANGED <<notForward, createCalls, sceneVars, unlitBatches_, litBatches_,
                   unlitBaseBatches_, litBaseBatches_, lightBatches_,
                   unlitBaseBatchesDirty_, litBaseBatchesDirty_, lightBatchesDirty_,
                   unlitBasePipelineStateCache_, litBasePipelineStateCache_,
                   lightPipelineStateCache_, sortedBatches_, frame, working, taken,
                   creating>>

\* GetOrCreatePipelineState returns for a dirty light batch.
LightResolve ==
    /\ pc = "litResolveLight"
    /\ creating
    /\ LET threadIndex == CurrentDirty[cursor][1]
           batchIndex == CurrentDirty[cursor][2]
           lightBatch == lightBatches_[threadIndex][batchIndex]
           key == BatchKey(lightBatch, LightHashOf(lightBatch.lightIndex_))
       IN \E created \in Created(lightPipelineStateCache_, key) :
            /\ lightPipelineStateCache_' =
                    CacheAfterGetOrCreate(lightPipelineStateCache_, key, created)
            /\ lightBatches_' = [lightBatches_ EXCEPT ![threadIndex][batchIndex] =
                    WithState(@, GetOrCreatePipelineState(lightPipelineStateCache_, key, created))]
            /\ createCalls' = CountIfMiss(lightPipelineStateCache_, "light", key)
    /\ cursor' = cursor + 1
    /\ creating' = FALSE
    /\ UNCHANGED <<notForward, sceneVars, unlitBatches_, litBatches_, unlitBaseBatches_,
                   litBaseBatches_, unlitBaseBatchesDirty_, litBaseBatchesDirty_,
                   lightBatchesDirty_, unlitBasePipelineStateCache_,
                   litBasePipelineStateCache_, sortedBatches_, pc, frame, working, taken>>

\* CollectSceneBatches returns.
CollectSceneBatchesEnd ==
    /\ pc = "litResolveLight"
    /\ ~creating
    /\ cursor > Len(CurrentDirty)
    /\ pc' = "collected"
    /\ UNCHANGED <<notForward, createCalls, sceneVars, unlitBatches_, litBatches_,
                   unlitBaseBatches_, litBaseBatches_, lightBatches_,
                   unlitBaseBatchesDirty_, litBaseBatchesDirty_, lightBatchesDirty_,
                   unlitBasePipelineStateCache_, litBasePipelineStateCache_,
                   lightPipelineStateCache_, sortedBatches_, frame, working, taken,
                   cursor, creating>>

(***************************************************************************)
(* OpaqueForwardLightingScenePass::SortSceneBatches                        *)
(***************************************************************************)
\* Order by state: pipeline state, then material, then geometry.
SortedBefore(lhs, rhs) ==
    \/ lhs.pipelineState_ < rhs.pipelineState_
    \/ lhs.pipelineState_ = rhs.pipelineState_ /\ lhs.material_ < rhs.material_
    \/ /\ lhs.pipelineState_ = rhs.pipelineState_ /\ lhs.material_ = rhs.material_
       /\ lhs.geometry_ < rhs.geometry_

RECURSIVE InsertSorted(_, _)
InsertSorted(sorted, batch) ==
    IF sorted = <<>> THEN <<batch>>
    ELSE IF SortedBefore(batch, Head(sorted)) THEN <<batch>> \o sorted
    ELSE <<Head(sorted)>> \o InsertSorted(Tail(sorted), batch)

RECURSIVE SortBatches(_)
SortBatches(batches) ==
    IF batches = <<>> THEN <<>>
    ELSE InsertSorted(SortBatches(Tail(batches)), Head(batches))

\* All light batches in the iteration order of the per-thread collection.
AllLightBatches == [i \in 1 .. Len(Flat(lightBatches_)) |-> Flat(lightBatches_)[i][2]]

SortSceneBatches ==
    /\ pc = "collected"
    /\ sortedBatches_' = [unlitBase |-> SortBatches(unlitBaseBatches_),
                          litBase |-> SortBatches(litBaseBatches_),
                          light |-> SortBatches(AllLightBatches),
                          shadow |-> sortedBatches_.shadow]
    /\ pc' = "sorted"
    /\ UNCHANGED <<notForward, createCalls, sceneVars, unlitBatches_, litBatches_,
                   unlitBaseBatches_, litBaseBatches_, lightBatches_,
                   unlitBaseBatchesDirty_, litBaseBatchesDirty_, lightBatchesDirty_,
                   unlitBasePipelineStateCache_, litBasePipelineStateCache_,
                   lightPipelineStateCache_, frame, working, taken, cursor, creating>>

(***************************************************************************)
(* ShadowScenePass                                                         *)
(***************************************************************************)
\* The forward pass variables, which the shadow pass does not touch.
forwardVars ==
    <<unlitBatches_, litBatches_, unlitBaseBatches_, litBaseBatches_, lightBatches_,
      unlitBaseBatchesDirty_, litBaseBatchesDirty_, lightBatchesDirty_,
      unlitBasePipelineStateCache_, litBasePipelineStateCache_, lightPipelineStateCache_>>

cacheHistory == <<lastCall, resolved, lookedUp>>

\* Bitwise and of two masks.
RECURSIVE BitAnd(_, _)
BitAnd(a, b) ==
    IF a = 0 \/ b = 0 THEN 0
    ELSE (a % 2) * (b % 2) + 2 * BitAnd(a \div 2, b \div 2)

\* drawable->GetShadowMaskInZone() & lightMask == 0: == binds tighter than &.
SkippedByShadowMask(shadowMask, mask) == BitAnd(shadowMask, IF mask = 0 THEN 1 ELSE 0) # 0

\* Mutant: the draw distance does not lower the shadow distance.
SkippedByShadowDistance_IgnoringDrawDistance(shadowDistance, drawDistance, distance) ==
    shadowDistance > 0 /\ distance > shadowDistance

\* The shadow distance check of CollectShadowBatches.
SkippedByShadowDistance(shadowDistance, drawDistance, distance) ==
    LET maxShadowDistance ==
            IF drawDistance > 0 /\ (shadowDistance <= 0 \/ drawDistance < shadowDistance)
            THEN drawDistance ELSE shadowDistance
    IN maxShadowDistance > 0 /\ distance > maxShadowDistance

\* Whether CollectShadowBatches adds the batch of the shadow caster.
AddsShadowBatch(d) ==
    /\ ~SkippedByShadowMask(casterSettings[d].shadowMask, lightMask)
    /\ ~SkippedByShadowDistance(casterSettings[d].shadowDistance,
                                casterSettings[d].drawDistance, casterSettings[d].distance)
    /\ casterSettings[d].shadowPass

\* sceneLight->GetPipelineStateHash() of the shadowed light, the first light.
ShadowLightHash == LightHashOf(1)

\* ShadowScenePass::BeginFrame
ShadowBeginFrame ==
    /\ kind = "shadow"
    /\ pc \in {"idle", "sorted"}
    /\ frame < MaxFrames
    /\ frame' = frame + 1
    /\ batchesDirty_' = EmptyPerThread
    /\ pc' = "shadowBegun"
    /\ UNCHANGED <<cacheVars, createCalls, sceneVars, forwardVars, shadowBatches_,
                   sortedBatches_, working, taken, cursor, creating, beyondPass>>

\* The light clears the batches of its splits before the shadow casters are collected.
ClearShadowCasterBatches ==
    /\ pc = "shadowBegun"
    /\ shadowBatches_' = [s \in Splits |-> <<>>]
    /\ taken' = {}
    /\ pc' = "shadowLoop"
    /\ UNCHANGED <<cacheVars, createCalls, sceneVars, forwardVars, batchesDirty_,
                   sortedBatches_, frame, working, cursor, creating, beyondPass>>

\* ShadowScenePass::CollectShadowBatches(sceneLight, splitIndex) on the thread that
\* took the split.
CollectShadowBatches(t) ==
    /\ pc = "shadowLoop"
    /\ working[t] # 0
    /\ LET splitIndex == working[t]
           casters == SelectSeq(shadowCasters[splitIndex], AddsShadowBatch)
           looked == [k \in 1 .. Len(casters) |->
                LET batch == BaseSceneBatch(NoLightIndex, casters[k], ShadowPass)
                IN WithState(batch,
                        GetPipelineState(pipelineStateCache_, BatchKey(batch, ShadowLightHash)))]
           offset == Len(shadowBatches_[splitIndex])
           dirty == SelectSeq([k \in 1 .. Len(looked) |-> k],
                              LAMBDA k : IsDirty(looked[k].pipelineState_))
       IN /\ shadowBatches_' = [shadowBatches_ EXCEPT ![splitIndex] = @ \o looked]
          /\ batchesDirty_' = [batchesDirty_ EXCEPT ![t] =
                @ \o [k \in 1 .. Len(dirty) |-> <<splitIndex, offset + dirty[k]>>]]
    /\ working' = [working EXCEPT ![t] = 0]
    /\ UNCHANGED <<cacheVars, createCalls, sceneVars, forwardVars, sortedBatches_, pc,
                   frame, taken, cursor, creating, beyondPass>>

\* All splits are collected: FinalizeShadowBatches starts on the main thread.
ShadowJoin ==
    /\ pc = "shadowLoop"
    /\ LoopJoined
    /\ pc' = "shadowResolve"
    /\ cursor' = 1
    /\ UNCHANGED <<cacheVars, createCalls, sceneVars, forwardVars, shadowVars,
                   sortedBatches_, frame, working, taken, creating, beyondPass>>

\* ShadowScenePass::FinalizeShadowBatches: GetOrCreatePipelineState returns for a
\* dirty shadow batch.
FinalizeShadowBatch ==
    /\ pc = "shadowResolve"
    /\ creating
    /\ LET splitIndex == CurrentDirty[cursor][2][1]
           batchIndex == CurrentDirty[cursor][2][2]
           shadowBatch == shadowBatches_[splitIndex][batchIndex]
           baseKey == BatchKey(shadowBatch, ShadowLightHash)
       IN \E created \in Created(pipelineStateCache_, baseKey) :
            /\ pipelineStateCache_' = CacheAfterGetOrCreate(pipelineStateCache_, baseKey, created)
            /\ shadowBatches_' = [shadowBatches_ EXCEPT ![splitIndex][batchIndex] =
                    WithState(@, GetOrCreatePipelineState(pipelineStateCache_, baseKey, created))]
            /\ createCalls' = CountIfMiss(pipelineStateCache_, "shadow", baseKey)
    /\ cursor' = cursor + 1
    /\ creating' = FALSE
    /\ UNCHANGED <<cacheHistory, sceneVars, forwardVars, batchesDirty_, sortedBatches_,
                   pc, frame, working, taken, beyondPass>>

\* FinalizeShadowBatches returns.
FinalizeShadowBatchesEnd ==
    /\ pc = "shadowResolve"
    /\ ~creating
    /\ cursor > Len(CurrentDirty)
    /\ pc' = "shadowCollected"
    /\ UNCHANGED <<cacheVars, createCalls, sceneVars, forwardVars, shadowVars,
                   sortedBatches_, frame, working, taken, cursor, creating, beyondPass>>

\* ShadowScenePass::GetSortedShadowBatches for the splits of the light.
GetSortedShadowBatches ==
    /\ pc = "shadowCollected"
    /\ sortedBatches_' = [sortedBatches_ EXCEPT
            !.shadow = [s \in Splits |-> SortBatches(shadowBatches_[s])]]
    /\ pc' = "sorted"
    /\ UNCHANGED <<cacheVars, createCalls, sceneVars, forwardVars, shadowVars, frame,
                   working, taken, cursor, creating, beyondPass>>

\* ShadowScenePass::InvalidatePipelineStateCache
ShadowInvalidatePipelineStateCache ==
    /\ kind = "shadow"
    /\ pc = "sorted"
    /\ pipelineStateCache_' = Invalidate(pipelineStateCache_)
    /\ createCalls' = NoCreateCalls
    /\ pc' = "idle"
    /\ UNCHANGED <<cacheHistory, sceneVars, forwardVars, shadowVars, sortedBatches_,
                   frame, working, taken, cursor, creating, beyondPass>>

(***************************************************************************)
(* Specification of the scene passes.                                     *)
(***************************************************************************)
PassInit ==
    /\ CacheIdle
    /\ createCalls = NoCreateCalls
    /\ PassIdle
    /\ DrawableIdle
    /\ LightIdle
    /\ LaterIdle
    /\ shape \in SceneShapes
    /\ lightHash = [l \in Lights |-> l]
    /\ kind \in {"forward", "shadow"}
    /\ litGeometries \in SUBSET Drawables
    /\ pixelLights \in [Drawables -> PixelLightLists \cup {<<>>}]
    /\ \A d \in Drawables : pixelLights[d] = <<>> <=> d \notin litGeometries
    /\ mainLightIndex \in {NoLightIndex, 1}
    /\ shadowCasters \in [Splits -> { Ascending(casters) : casters \in SUBSET Drawables }]
    /\ casterSettings \in [Drawables -> CasterSettings]
    /\ lightMask \in {0, 1}
    \* The forward pass has no shadow casters, the shadow pass no lit geometries.
    /\ kind = "forward" =>
            /\ shadowCasters = [s \in Splits |-> <<>>]
            /\ casterSettings = [d \in Drawables |-> DefaultCaster]
            /\ lightMask = 1
    /\ kind = "shadow" => litGeometries = {} /\ mainLightIndex = NoLightIndex

PassNext ==
    \/ BeginFrame
    \/ AddSourceBatches
    \/ InvalidatePipelineStateCache
    \/ \E d \in Drawables, material \in {1, 2} : SetMaterial(d, material)
    \/ \E t \in Threads, index \in 1 .. MaxOf(NumDrawables, NumSplits) : TakeIndex(t, index)
    \/ CollectUnlitBegin
    \/ \E t \in Threads : UnlitLambda(t)
    \/ UnlitJoin
    \/ ResolveBegin
    \/ UnlitResolve
    \/ CollectLitBegin
    \/ \E t \in Threads : LitLambda(t)
    \/ LitJoin
    \/ LitBaseResolve
    \/ LitBaseResolved
    \/ LightResolve
    \/ CollectSceneBatchesEnd
    \/ SortSceneBatches
    \/ ShadowBeginFrame
    \/ ClearShadowCasterBatches
    \/ \E t \in Threads : CollectShadowBatches(t)
    \/ ShadowJoin
    \/ FinalizeShadowBatch
    \/ FinalizeShadowBatchesEnd
    \/ GetSortedShadowBatches
    \/ ShadowInvalidatePipelineStateCache

SpecPass == PassInit /\ [][PassNext]_vars

(***************************************************************************)
(* Claims about the scene passes.                                          *)
(***************************************************************************)
\* The batch carries what the cache holds for its key.
ResolvedIn(cache, batch, hash) ==
    /\ ~CacheMiss(cache, BatchKey(batch, hash))
    /\ batch.pipelineState_ = CacheEntry(cache, BatchKey(batch, hash)).pipelineState_

\* The collected batches of the observed pass, as a set.
CollectedBatches ==
    Elements(unlitBaseBatches_) \cup Elements(litBaseBatches_)
        \cup UNION { Elements(lightBatches_[t]) : t \in Threads }
        \cup UNION { Elements(shadowBatches_[s]) : s \in Splits }

PassCollected == pc \in {"collected", "shadowCollected", "sorted"}

\* C1 as stated: after collection every batch of the unlit base, lit base, light and
\* shadow lists carries a non-null, valid pipeline state.
C1_AllStatesValid ==
    PassCollected => \A batch \in CollectedBatches : IsValidState(batch.pipelineState_)

\* C1: after collection there is one batch per source batch, and every batch of the
\* unlit base, lit base, light and shadow lists carries the state its cache
\* holds for its key in a valid entry: every miss of the parallel lookup was
\* resolved. That state is nullptr exactly if the callback returned nullptr.
C1_BatchesResolved ==
    PassCollected =>
        /\ Len(unlitBaseBatches_) = Len(unlitBatches_)
        /\ Len(litBaseBatches_) = Len(litBatches_)
        /\ \A i \in 1 .. Len(unlitBaseBatches_) :
                ResolvedIn(unlitBasePipelineStateCache_, unlitBaseBatches_[i], 0)
        /\ \A i \in 1 .. Len(litBaseBatches_) :
                ResolvedIn(litBasePipelineStateCache_, litBaseBatches_[i],
                           LightHashOf(litBaseBatches_[i].lightIndex_))
        /\ \A t \in Threads : \A i \in 1 .. Len(lightBatches_[t]) :
                ResolvedIn(lightPipelineStateCache_, lightBatches_[t][i],
                           LightHashOf(lightBatches_[t][i].lightIndex_))
        /\ \A split \in Splits : \A i \in 1 .. Len(shadowBatches_[split]) :
                ResolvedIn(pipelineStateCache_, shadowBatches_[split][i], ShadowLightHash)

\* A forward pass was collected and sorted whose lit base and light lookups missed,
\* and all its batches carry valid states.
C1_Witness ==
    /\ pc = "sorted"
    /\ Flat(litBaseBatchesDirty_) # <<>>
    /\ Flat(lightBatchesDirty_) # <<>>
    /\ \A batch \in CollectedBatches : IsValidState(batch.pipelineState_)

PassCaches ==
    <<unlitBasePipelineStateCache_, litBasePipelineStateCache_, lightPipelineStateCache_,
      pipelineStateCache_>>

\* C5: a step creates a cache entry (or revalidates one) only while the main thread
\* is inside GetOrCreatePipelineState of a resolution loop, and whenever it is
\* inside, the parallel loop has joined: no thread works on an element.
C5_CreationSingleThreaded ==
    [][/\ (\E c \in 1 .. 4 : \E k \in DOMAIN PassCaches'[c] :
                CacheMiss(PassCaches[c], k) /\ ~CacheMiss(PassCaches'[c], k))
            => creating /\ ~creating'
       /\ creating' =>
            /\ pc' \in {"unlitResolve", "litResolveBase", "litResolveLight", "shadowResolve"}
            /\ \A t \in Threads : working'[t] = 0]_vars

\* The main thread creates the state of a light batch that a worker thread looked up.
C5_Witness ==
    /\ creating
    /\ pc = "litResolveLight"
    /\ \E t \in Threads \ {MainThread} : lightBatchesDirty_[t] # <<>>

(***************************************************************************)
(* Lookup keys of light batches: batches of any two drawables and lights   *)
(* resolved one after the other, as CollectLitBatches does for one batch.  *)
(***************************************************************************)
\* The lookup of the light batch of drawable d for light lightIndex, and, if it is
\* dirty, its resolution; created is what the callback returns if invoked.
ResolveLightBatch(d, lightIndex, created) ==
    /\ kind = "key"
    /\ Len(keyBatches) < MaxRequests
    /\ LET lightBatch == LightBatchOf(BaseSceneBatch(NoLightIndex, d, LitBasePass), lightIndex)
           key == BatchKey(lightBatch, LightHashOf(lightIndex))
           dirty == IsDirty(lightBatch.pipelineState_)
           missed == dirty /\ CacheMiss(lightPipelineStateCache_, key)
       IN /\ created \in (IF missed THEN CallbackResults ELSE {NullState})
          /\ lightPipelineStateCache_' =
                IF dirty THEN CacheAfterGetOrCreate(lightPipelineStateCache_, key, created)
                ELSE lightPipelineStateCache_
          /\ keyBatches' = Append(keyBatches,
                [batch |-> IF dirty
                           THEN WithState(lightBatch,
                                    GetOrCreatePipelineState(lightPipelineStateCache_, key, created))
                           ELSE lightBatch,
                 missed |-> missed])
          /\ createCalls' = IF dirty THEN CountIfMiss(lightPipelineStateCache_, "light", key)
                            ELSE createCalls
    /\ UNCHANGED <<cacheVars, sceneVars, shadowVars, drawableVars, lightVars, laterVars,
                   unlitBatches_,
                   litBatches_,
                   unlitBaseBatches_, litBaseBatches_, lightBatches_, unlitBaseBatchesDirty_,
                   litBaseBatchesDirty_, lightBatchesDirty_, unlitBasePipelineStateCache_,
                   litBasePipelineStateCache_, sortedBatches_, pc, frame, working, taken,
                   cursor, creating>>

KeyInit ==
    /\ CacheIdle
    /\ createCalls = NoCreateCalls
    /\ PassIdle
    /\ DrawableIdle
    /\ LightIdle
    /\ LaterIdle
    /\ kind = "key"
    /\ shape \in [Drawables -> Shapes]
    /\ lightHash \in [Lights -> {1, 2}]
    /\ litGeometries = {}
    /\ pixelLights = [d \in Drawables |-> <<>>]
    /\ mainLightIndex = NoLightIndex
    /\ shadowCasters = [s \in Splits |-> <<>>]
    /\ casterSettings = [d \in Drawables |-> DefaultCaster]
    /\ lightMask = 1

KeyNext ==
    \E d \in Drawables, lightIndex \in Lights, created \in CallbackResults :
        ResolveLightBatch(d, lightIndex, created)

SpecKey == KeyInit /\ [][KeyNext]_vars

\* What of a resolved batch the key is made of.
KeyFields(batch) ==
    <<shape[batch.drawable_].drawableHash, LightHashOf(batch.lightIndex_), batch.geometryType_,
      batch.geometry_, batch.material_, batch.pass_>>

\* C6 as stated: two batches of different objects with the same geometry, material
\* and pass under the same light carry the same pipeline state (checked for
\* states that were created successfully).
C6_SharedByGeometryMaterialPass ==
    \A i, j \in 1 .. Len(keyBatches) :
        LET a == keyBatches[i].batch
            b == keyBatches[j].batch
        IN (/\ a.drawable_ # b.drawable_
            /\ a.geometryType_ = b.geometryType_ /\ a.geometry_ = b.geometry_
            /\ a.material_ = b.material_ /\ a.pass_ = b.pass_
            /\ a.lightIndex_ = b.lightIndex_
            /\ IsValidState(a.pipelineState_) /\ IsValidState(b.pipelineState_))
           => a.pipelineState_ = b.pipelineState_

\* C6: two batches that agree on drawable hash, light hash, geometry type, geometry,
\* material and pass carry the same pipeline state, and the callback is not
\* invoked for the later one; a batch that differs in one of them (the material
\* or the light hash, say) from every batch before it misses, and gets an
\* entry of its own.
C6_SharedByKey ==
    \A j \in 1 .. Len(keyBatches) :
        /\ \A i \in 1 .. (j - 1) :
                KeyFields(keyBatches[i].batch) = KeyFields(keyBatches[j].batch)
                    => /\ keyBatches[i].batch.pipelineState_ = keyBatches[j].batch.pipelineState_
                       /\ ~keyBatches[j].missed
        /\ (\A i \in 1 .. (j - 1) :
                KeyFields(keyBatches[i].batch) # KeyFields(keyBatches[j].batch))
            => keyBatches[j].missed
        /\ Cardinality(DOMAIN lightPipelineStateCache_)
                = Cardinality({ KeyFields(keyBatches[i].batch) : i \in 1 .. Len(keyBatches) })

\* Two different drawables shared one created state without a second callback, and
\* a batch lit by a light with another hash missed and got a state of its own.
C6_Witness ==
    /\ Len(keyBatches) = 3
    /\ keyBatches[1].batch.drawable_ # keyBatches[2].batch.drawable_
    /\ KeyFields(keyBatches[1].batch) = KeyFields(keyBatches[2].batch)
    /\ IsValidState(keyBatches[2].batch.pipelineState_)
    /\ ~keyBatches[2].missed
    /\ LightHashOf(keyBatches[3].batch.lightIndex_) # LightHashOf(keyBatches[1].batch.lightIndex_)
    /\ keyBatches[3].missed
    /\ IsValidState(keyBatches[3].batch.pipelineState_)
    /\ keyBatches[3].batch.pipelineState_ # keyBatches[1].batch.pipelineState_

(***************************************************************************)
(* DrawableProcessor: visible drawables, shadow caster candidates and      *)
(* queued drawable updates of a frame.                                     *)
(***************************************************************************)
\* Techniques: without unlit base pass ("none"), with unlit base pass only ("unlit"),
\* with light pass too ("lit").
\* Geometries with a lit technique, and lights; without draw distance, at the draw
\* distance, beyond it.
DrawableInputs ==
    { DrawableInput(isLight, range[1], range[2], IF isLight THEN "none" ELSE "lit") :
        isLight \in BOOLEAN, range \in {<<0, 2>>, <<1, 1>>, <<1, 2>>} }

\* Geometries at their draw distance or beyond it, whose technique has no pass of
\* the scene pass, its unlit base pass only, or its light pass too; and a light.
FlagInputs ==
    { DrawableInput(FALSE, 1, distance, technique) :
        distance \in {1, 2}, technique \in {"none", "unlit", "lit"} }
    \cup { DrawableInput(TRUE, 0, 2, "none") }

\* The drawables with a draw distance are at it or beyond it in the next frame.
MovedInputs ==
    { input \in [Objects -> DrawableInputs \cup FlagInputs] :
        \A d \in Objects :
            /\ input[d].isLight = drawableInput[d].isLight
            /\ input[d].drawDistance = drawableInput[d].drawDistance }

RECURSIVE SeqsUpTo(_, _)
SeqsUpTo(set, n) ==
    IF n = 0 THEN {<<>>}
    ELSE SeqsUpTo(set, n - 1) \cup
         { Append(seq, x) : seq \in { q \in SeqsUpTo(set, n - 1) : Len(q) = n - 1 }, x \in set }

Geometries == { d \in Objects : ~drawableInput[d].isLight }

\* Mutant: the flag is tested but not set.
TestAndSet_NotSetting(flags, d) == [old |-> flags[d], flags |-> flags]

\* std::atomic_flag::test_and_set: the value before, and the flags after.
TestAndSet(flags, d) == [old |-> flags[d], flags |-> [flags EXCEPT ![d] = TRUE]]

\* Mutant: the draw distance is not looked at.
TooFar_Never(d) == FALSE

\* "Skip if too far" of ProcessVisibleDrawable.
TooFar(d) ==
    LET maxDistance == drawableInput[d].drawDistance
    IN maxDistance > 0 /\ drawableInput[d].distance > maxDistance

\* DrawableProcessorPass::AddBatch: the passes found, and the result.
AddBatch(d) ==
    LET technique == drawableInput[d].technique
        unlitBasePass == technique # "none"
        lightPass == technique = "lit"
    IN [added_ |-> unlitBasePass, litAdded_ |-> unlitBasePass /\ lightPass]

Count(x, seq) == Cardinality({ i \in 1 .. Len(seq) : seq[i] = x })

\* The elements of a per-thread collection in iteration order.
FlatElements(perThread) == [i \in 1 .. Len(Flat(perThread)) |-> Flat(perThread)[i][2]]

\* Saturating counter of UpdateBatches calls.
Called(calls, d) == [calls EXCEPT ![d] = MinOf(@ + 1, 2)]

drawableScene == <<frustumDrawables, casterCandidates, needAmbient_>>
notDrawable ==
    <<cacheVars, createCalls, sceneVars, passVars, shadowVars, keyBatches, lightVars,
      laterVars>>
stageInputs == <<brightLights, boundingBox>>
notStage ==
    <<cacheVars, createCalls, sceneVars, passVars, shadowVars, keyBatches, lightVars,
      shadowCamera_, restVars>>

\* The threshold of the "infinite" objects.
M_LARGE_VALUE == 100000000

\* FloatRange::IsValid.
IsValid(range) == range[1] <= range[2]

\* FloatRange::operator |=: an invalid range adds nothing.
RangeUnion(lhs, rhs) ==
    IF ~IsValid(lhs) THEN rhs
    ELSE IF ~IsValid(rhs) THEN lhs
    ELSE <<MinOf(lhs[1], rhs[1]), MaxOf(lhs[2], rhs[2])>>

\* Mutant: the "infinite" objects are not ignored.
CalculateBoundingBoxZRange_KeepingInfinite(box) ==
    <<box.viewCenterZ - box.viewEdgeZ, box.viewCenterZ + box.viewEdgeZ>>

\* DrawableProcessor::CalculateBoundingBoxZRange. The lengths are not negative, so
\* the comparison of the squares is the comparison of the lengths.
CalculateBoundingBoxZRange(box) ==
    IF box.edgeLength >= M_LARGE_VALUE THEN NoRange
    ELSE <<box.viewCenterZ - box.viewEdgeZ, box.viewCenterZ + box.viewEdgeZ>>

\* Component::GetID of a light: the objects are named by their IDs.
GetID(light) == light

\* compareID of ProcessVisibleDrawables.
CompareID(lhs, rhs) == GetID(lhs) < GetID(rhs)

\* Mutant: the visible lights are copied and not sorted.
SortByID_NotSorting(lights) == lights

\* ea::sort with compareID: the lights of the sequence, every one as often as in the
\* sequence, none before a light it compares less than.
RECURSIVE SortByID(_)
SortByID(lights) ==
    IF lights = <<>> THEN <<>>
    ELSE LET light == Head(lights)
             sorted == SortByID(Tail(lights))
             NotAfter(other) == ~CompareID(light, other)
             After(other) == CompareID(light, other)
         IN SelectSeq(sorted, NotAfter) \o <<light>> \o SelectSeq(sorted, After)

\* Mutant: every request creates a processor.
GetLightProcessor_AlwaysCreating(cache, light) ==
    LET created == 1 + Cardinality({ other \in Objects : cache[other] # NoProcessor })
    IN [cache |-> [cache EXCEPT ![light] = created], processor |-> created]

\* LightProcessorCache::GetLightProcessor: the processor of the light, created at the
\* first request; the cache after the request and the processor returned.
GetLightProcessor(cache, light) ==
    IF cache[light] # NoProcessor THEN [cache |-> cache, processor |-> cache[light]]
    ELSE LET created == 1 + Cardinality({ other \in Objects : cache[other] # NoProcessor })
         IN [cache |-> [cache EXCEPT ![light] = created], processor |-> created]

\* The loop of ProcessVisibleDrawables that fills lightProcessors_.
RECURSIVE CollectLightProcessors(_, _)
CollectLightProcessors(cache, lights) ==
    IF lights = <<>> THEN [cache |-> cache, processors |-> <<>>]
    ELSE LET first == GetLightProcessor(cache, Head(lights))
             rest == CollectLightProcessors(first.cache, Tail(lights))
         IN [cache |-> rest.cache, processors |-> <<first.processor>> \o rest.processors]

\* Mutant: only the range of the main thread is added.
UnionFrom_MainThreadOnly(range, perThread, t) == RangeUnion(range, perThread[MainThread])

\* The loop of ProcessVisibleDrawables that computes the scene Z range.
RECURSIVE UnionFrom(_, _, _)
UnionFrom(range, perThread, t) ==
    IF t >= NumThreads THEN range
    ELSE UnionFrom(RangeUnion(range, perThread[t]), perThread, t + 1)

\* Mutant: geometryFlags_ is not filled with 0.
OnUpdateBegin_KeepingFlags(moved) ==
    /\ dpc \in {"idle", "done"}
    /\ moved \in MovedInputs
    /\ drawableInput' = moved
    /\ isDrawableUpdated_' = [d \in Objects |-> FALSE]
    /\ visibleGeometries_' = EmptyPerThread
    /\ threadedGeometryUpdates_' = EmptyPerThread
    /\ visibleLightsTemp_' = EmptyPerThread
    /\ queuedDrawableUpdates_' = EmptyPerThread
    /\ geometryBatches_' = EmptyPerThread
    /\ updateBatchesCalls' = [d \in Objects |-> 0]
    /\ visited' = {} /\ requested' = {}
    /\ sceneZRangeTemp_' = [t \in Threads |-> NoRange]
    /\ sceneZRange_' = NoRange
    /\ dpc' = "visible"
    /\ dtaken' = {}
    /\ UNCHANGED <<notStage, drawableScene, stageInputs, geometryZRanges_, lightProcessors_,
                   lightProcessorCache_, visibleLights_, dwork, geometryFlags_>>

\* DrawableProcessor::OnUpdateBegin and DrawableProcessorPass::OnUpdateBegin, for a
\* frame in which the drawables are at the distances of moved.
OnUpdateBegin(moved) ==
    /\ dpc \in {"idle", "done"}
    /\ moved \in MovedInputs
    /\ drawableInput' = moved
    /\ isDrawableUpdated_' = [d \in Objects |-> FALSE]
    /\ geometryFlags_' = [d \in Objects |-> {}]
    /\ visibleGeometries_' = EmptyPerThread
    /\ threadedGeometryUpdates_' = EmptyPerThread
    /\ visibleLightsTemp_' = EmptyPerThread
    /\ queuedDrawableUpdates_' = EmptyPerThread
    /\ geometryBatches_' = EmptyPerThread
    /\ updateBatchesCalls' = [d \in Objects |-> 0]
    /\ visited' = {} /\ requested' = {}
    /\ sceneZRangeTemp_' = [t \in Threads |-> NoRange]
    /\ sceneZRange_' = NoRange
    /\ dpc' = "visible"
    /\ dtaken' = {}
    /\ UNCHANGED <<notStage, drawableScene, stageInputs, geometryZRanges_, lightProcessors_,
                   lightProcessorCache_, visibleLights_, dwork>>

\* The size of the collection the current parallel loop goes through.
DrawableLoopSize ==
    IF dpc = "visible" THEN Len(frustumDrawables)
    ELSE IF dpc = "lights" THEN NumLightTasks
    ELSE IF dpc = "casters" THEN Len(Flat(queuedDrawableUpdates_))
    ELSE 0

\* A thread of the work queue takes an element of the current parallel loop.
TakeElement(t, index) ==
    /\ dpc \in {"visible", "lights", "casters"}
    /\ dwork[t] = NoWork
    /\ index \in (1 .. DrawableLoopSize) \ dtaken
    /\ dwork' = [dwork EXCEPT ![t] = [task |-> index, pos |-> 1]]
    /\ dtaken' = dtaken \cup {index}
    /\ UNCHANGED <<notDrawable, drawableInput, drawableScene, isDrawableUpdated_, geometryFlags_,
                   visibleGeometries_, visibleLightsTemp_, visibleLights_, geometryBatches_,
                   queuedDrawableUpdates_, threadedGeometryUpdates_, updateBatchesCalls,
                   visited, requested, dpc>>

DrawableLoopJoined == dtaken = 1 .. DrawableLoopSize /\ \A t \in Threads : dwork[t] = NoWork

\* DrawableProcessor::ProcessVisibleDrawable on the drawable the thread took.
ProcessVisibleDrawable(t) ==
    /\ dpc = "visible"
    /\ dwork[t] # NoWork
    /\ LET d == frustumDrawables[dwork[t].task]
           result == AddBatch(d)
           isForwardLit == result.litAdded_
           needAmbient == result.litAdded_ \/ (result.added_ /\ needAmbient_)
           isGeometry == ~TooFar(d) /\ ~drawableInput[d].isLight
           isLight == ~TooFar(d) /\ drawableInput[d].isLight
           zRange == CalculateBoundingBoxZRange(boundingBox[d])
           bright == d \in brightLights
       IN /\ updateBatchesCalls' = Called(updateBatchesCalls, d)
          /\ visited' = visited \cup {d}
          /\ isDrawableUpdated_' = TestAndSet(isDrawableUpdated_, d).flags
          /\ geometryBatches_' =
                IF isGeometry /\ result.added_ THEN PushBack(geometryBatches_, t, d)
                ELSE geometryBatches_
          /\ visibleGeometries_' =
                IF isGeometry THEN PushBack(visibleGeometries_, t, d) ELSE visibleGeometries_
          /\ geometryFlags_' =
                IF isGeometry
                THEN [geometryFlags_ EXCEPT ![d] =
                        {"Visible"} \cup (IF needAmbient THEN {"Lit"} ELSE {})
                            \cup (IF isForwardLit THEN {"ForwardLit"} ELSE {})]
                ELSE geometryFlags_
          /\ threadedGeometryUpdates_' =
                IF isGeometry THEN PushBack(threadedGeometryUpdates_, t, d)
                ELSE threadedGeometryUpdates_
          /\ visibleLightsTemp_' =
                IF isLight /\ bright THEN PushBack(visibleLightsTemp_, t, d)
                ELSE visibleLightsTemp_
          /\ geometryZRanges_' =
                IF ~isGeometry THEN geometryZRanges_
                ELSE IF ~IsValid(zRange)
                THEN [geometryZRanges_ EXCEPT ![d] = <<M_LARGE_VALUE, M_LARGE_VALUE>>]
                ELSE [geometryZRanges_ EXCEPT ![d] = zRange]
          /\ sceneZRangeTemp_' =
                IF isGeometry /\ IsValid(zRange)
                THEN [sceneZRangeTemp_ EXCEPT ![t] = RangeUnion(@, zRange)]
                ELSE sceneZRangeTemp_
    /\ dwork' = [dwork EXCEPT ![t] = NoWork]
    /\ UNCHANGED <<notStage, drawableInput, drawableScene, stageInputs, sceneZRange_,
                   lightProcessors_, lightProcessorCache_, visibleLights_,
                   queuedDrawableUpdates_, requested, dpc, dtaken>>

\* The end of ProcessVisibleDrawables: the visible lights copied and sorted by ID,
\* their light processors, and the scene Z range.
ProcessVisibleDrawablesEnd ==
    /\ dpc = "visible"
    /\ DrawableLoopJoined
    /\ visibleLights_' = SortByID(FlatElements(visibleLightsTemp_))
    /\ LET collected == CollectLightProcessors(lightProcessorCache_, visibleLights_')
       IN /\ lightProcessors_' = collected.processors
          /\ lightProcessorCache_' = collected.cache
    /\ sceneZRange_' = UnionFrom(sceneZRange_, sceneZRangeTemp_, 0)
    /\ dpc' = "lights"
    /\ dtaken' = {}
    /\ UNCHANGED <<notStage, stageInputs, geometryZRanges_, sceneZRangeTemp_,
                   drawableInput, drawableScene, isDrawableUpdated_, geometryFlags_,
                   visibleGeometries_, visibleLightsTemp_, geometryBatches_,
                   queuedDrawableUpdates_, threadedGeometryUpdates_, updateBatchesCalls,
                   visited, requested, dwork>>

\* DrawableProcessor::PreprocessShadowCasters on the next candidate of the light
\* processor the thread updates, with QueueDrawableUpdate;
\* shadowCasterVisible: the result of IsShadowCasterVisible.
PreprocessShadowCaster(t, shadowCasterVisible) ==
    /\ dpc = "lights"
    /\ dwork[t] # NoWork
    /\ dwork[t].pos <= Len(casterCandidates[dwork[t].task])
    /\ LET d == casterCandidates[dwork[t].task][dwork[t].pos]
           isDrawableVisible == "Visible" \in geometryFlags_[d]
           queued == isDrawableVisible \/ shadowCasterVisible
           tested == TestAndSet(isDrawableUpdated_, d)
       IN /\ isDrawableUpdated_' = IF queued THEN tested.flags ELSE isDrawableUpdated_
          /\ queuedDrawableUpdates_' =
                IF queued /\ ~tested.old THEN PushBack(queuedDrawableUpdates_, t, d)
                ELSE queuedDrawableUpdates_
          /\ requested' = IF queued THEN requested \cup {d} ELSE requested
    /\ dwork' = [dwork EXCEPT ![t].pos = @ + 1]
    /\ UNCHANGED <<notDrawable, drawableInput, drawableScene, geometryFlags_, visibleGeometries_,
                   visibleLightsTemp_, visibleLights_, geometryBatches_,
                   threadedGeometryUpdates_, updateBatchesCalls, visited, dpc, dtaken>>

\* The update of the light processor went through all its candidates.
LightUpdateEnd(t) ==
    /\ dpc = "lights"
    /\ dwork[t] # NoWork
    /\ dwork[t].pos > Len(casterCandidates[dwork[t].task])
    /\ dwork' = [dwork EXCEPT ![t] = NoWork]
    /\ UNCHANGED <<notDrawable, drawableInput, drawableScene, isDrawableUpdated_, geometryFlags_,
                   visibleGeometries_, visibleLightsTemp_, visibleLights_, geometryBatches_,
                   queuedDrawableUpdates_, threadedGeometryUpdates_, updateBatchesCalls,
                   visited, requested, dpc, dtaken>>

\* The parallel loop of ProcessLights joined: ProcessShadowCasters starts.
ProcessLightsEnd ==
    /\ dpc = "lights"
    /\ DrawableLoopJoined
    /\ dpc' = "casters"
    /\ dtaken' = {}
    /\ UNCHANGED <<notDrawable, drawableInput, drawableScene, isDrawableUpdated_, geometryFlags_,
                   visibleGeometries_, visibleLightsTemp_, visibleLights_, geometryBatches_,
                   queuedDrawableUpdates_, threadedGeometryUpdates_, updateBatchesCalls,
                   visited, requested, dwork>>

\* DrawableProcessor::ProcessQueuedDrawable on the queued drawable the thread took.
ProcessQueuedDrawable(t) ==
    /\ dpc = "casters"
    /\ dwork[t] # NoWork
    /\ LET d == FlatElements(queuedDrawableUpdates_)[dwork[t].task]
       IN /\ updateBatchesCalls' = Called(updateBatchesCalls, d)
          /\ threadedGeometryUpdates_' = PushBack(threadedGeometryUpdates_, t, d)
    /\ dwork' = [dwork EXCEPT ![t] = NoWork]
    /\ UNCHANGED <<notDrawable, drawableInput, drawableScene, isDrawableUpdated_, geometryFlags_,
                   visibleGeometries_, visibleLightsTemp_, visibleLights_, geometryBatches_,
                   queuedDrawableUpdates_, visited, requested, dpc, dtaken>>

\* The end of ProcessShadowCasters.
ProcessShadowCastersEnd ==
    /\ dpc = "casters"
    /\ DrawableLoopJoined
    /\ queuedDrawableUpdates_' = EmptyPerThread
    /\ dpc' = "done"
    /\ UNCHANGED <<notDrawable, drawableInput, drawableScene, isDrawableUpdated_, geometryFlags_,
                   visibleGeometries_, visibleLightsTemp_, visibleLights_, geometryBatches_,
                   threadedGeometryUpdates_, updateBatchesCalls, visited, requested, dwork,
                   dtaken>>

DrawableInit ==
    /\ CacheIdle
    /\ createCalls = NoCreateCalls
    /\ SceneIdle
    /\ PassIdle
    /\ LightIdle
    /\ ShadowCameraIdle
    /\ SceneZRangeIdle
    /\ RestIdle
    /\ keyBatches = <<>>
    /\ drawableInput \in [Objects -> DrawableInputs]
    /\ brightLights \in SUBSET { d \in Objects : drawableInput[d].isLight }
    /\ boundingBox = [d \in Objects |-> BoundingBox(2, 1, 1)]
    /\ geometryZRanges_ = [d \in Objects |-> NoRange]
    /\ sceneZRangeTemp_ = [t \in Threads |-> NoRange]
    /\ lightProcessors_ = <<>>
    /\ lightProcessorCache_ = [light \in Objects |-> NoProcessor]
    /\ frustumDrawables \in { Ascending(inside) : inside \in SUBSET Objects }
    /\ casterCandidates \in [LightTasks -> SeqsUpTo(Geometries, MaxCandidates)]
    /\ needAmbient_ = FALSE
    /\ isDrawableUpdated_ = [d \in Objects |-> FALSE]
    /\ geometryFlags_ = [d \in Objects |-> {}]
    /\ visibleGeometries_ = EmptyPerThread
    /\ visibleLightsTemp_ = EmptyPerThread
    /\ visibleLights_ = <<>>
    /\ geometryBatches_ = EmptyPerThread
    /\ queuedDrawableUpdates_ = EmptyPerThread
    /\ threadedGeometryUpdates_ = EmptyPerThread
    /\ updateBatchesCalls = [d \in Objects |-> 0]
    /\ visited = {} /\ requested = {}
    /\ dpc = "idle"
    /\ dwork = [t \in Threads |-> NoWork]
    /\ dtaken = {}

DrawableNext ==
    \/ \E moved \in [Objects -> DrawableInputs] : OnUpdateBegin(moved)
    \/ \E t \in Threads, index \in 1 .. (NumObjects * NumLightTasks) : TakeElement(t, index)
    \/ \E t \in Threads : ProcessVisibleDrawable(t)
    \/ ProcessVisibleDrawablesEnd
    \/ \E t \in Threads, shadowCasterVisible \in BOOLEAN :
            PreprocessShadowCaster(t, shadowCasterVisible)
    \/ \E t \in Threads : LightUpdateEnd(t)
    \/ ProcessLightsEnd
    \/ \E t \in Threads : ProcessQueuedDrawable(t)
    \/ ProcessShadowCastersEnd

SpecDrawable == DrawableInit /\ [][DrawableNext]_vars

(***************************************************************************)
(* Claims about the drawable stage.                                        *)
(***************************************************************************)
QueuedUpdates == FlatElements(queuedDrawableUpdates_)

\* C7: within a frame UpdateBatches is called at most once for every drawable; a
\* drawable ProcessVisibleDrawable handled is never in the queued updates; a
\* drawable is in the queued updates at most once, and exactly once when
\* ProcessShadowCasters starts if QueueDrawableUpdate was called for it and
\* ProcessVisibleDrawable did not handle it.
C7_ProcessedOnce ==
    \A d \in Objects :
        /\ updateBatchesCalls[d] <= 1
        /\ Count(d, QueuedUpdates) <= 1
        /\ d \in visited => Count(d, QueuedUpdates) = 0
        /\ (dpc \in {"lights", "casters"} /\ d \in requested \ visited)
                => Count(d, QueuedUpdates) = 1

\* Both light processors went through the same two candidates on different threads:
\* one candidate was handled as visible drawable before, the other is queued once.
C7_Witness ==
    /\ dpc = "casters"
    /\ \A task \in LightTasks : Len(casterCandidates[task]) = 2
    /\ casterCandidates[1] # casterCandidates[2]
    /\ \E d \in requested : d \in visited
    /\ \E d \in requested : d \notin visited /\ Count(d, QueuedUpdates) = 1

\* C8: a drawable ProcessVisibleDrawable handled in the frame whose draw distance is
\* positive and smaller than its distance is not among the visible geometries,
\* has no render flag, has no batch in the pass, and is not among the visible
\* lights.
C8_TooFarExcluded ==
    \A d \in visited :
        (drawableInput[d].drawDistance > 0
            /\ drawableInput[d].distance > drawableInput[d].drawDistance)
        => /\ Count(d, FlatElements(visibleGeometries_)) = 0
           /\ geometryFlags_[d] = {}
           /\ Count(d, FlatElements(geometryBatches_)) = 0
           /\ Count(d, FlatElements(visibleLightsTemp_)) = 0
           /\ (dpc # "visible" => Count(d, visibleLights_) = 0)

\* A geometry beyond its draw distance and a light at its draw distance were handled:
\* the light is visible, the geometry is not.
C8_Witness ==
    /\ dpc = "lights"
    /\ \E d \in visited :
            /\ ~drawableInput[d].isLight
            /\ drawableInput[d].drawDistance = 1 /\ drawableInput[d].distance = 2
    /\ \E d \in visited :
            /\ drawableInput[d].isLight
            /\ drawableInput[d].drawDistance = 1 /\ drawableInput[d].distance = 1
            /\ Count(d, visibleLights_) = 1

(***************************************************************************)
(* The visibility stage over frames: lights, light processors and Z ranges.*)
(***************************************************************************)
\* A small box near the camera, a small box further away, and an "infinite" box.
BoundingBoxes ==
    { BoundingBox(2, 1, 1), BoundingBox(5, 1, 1), BoundingBox(3, 3, M_LARGE_VALUE) }

\* The sequences that hold every element of the set once.
RECURSIVE Orders(_)
Orders(set) ==
    IF set = {} THEN {<<>>}
    ELSE UNION { { <<x>> \o rest : rest \in Orders(set \ {x}) } : x \in set }

\* The frustum query returns every drawable at most once, in any order; no light
\* processor has a shadow caster candidate.
VisibleInit ==
    /\ CacheIdle
    /\ createCalls = NoCreateCalls
    /\ SceneIdle
    /\ PassIdle
    /\ LightIdle
    /\ ShadowCameraIdle
    /\ SceneZRangeIdle
    /\ RestIdle
    /\ keyBatches = <<>>
    /\ drawableInput \in [Objects -> DrawableInputs]
    /\ frustumDrawables \in UNION { Orders(inside) : inside \in SUBSET Objects }
    /\ casterCandidates = [task \in LightTasks |-> <<>>]
    /\ needAmbient_ = FALSE
    /\ brightLights \in SUBSET { d \in Objects : drawableInput[d].isLight }
    /\ boundingBox \in [Objects -> BoundingBoxes]
    /\ \A d \in Objects : drawableInput[d].isLight => boundingBox[d] = BoundingBox(2, 1, 1)
    /\ geometryZRanges_ = [d \in Objects |-> NoRange]
    /\ sceneZRangeTemp_ = [t \in Threads |-> NoRange]
    /\ lightProcessors_ = <<>>
    /\ lightProcessorCache_ = [light \in Objects |-> NoProcessor]
    /\ isDrawableUpdated_ = [d \in Objects |-> FALSE]
    /\ geometryFlags_ = [d \in Objects |-> {}]
    /\ visibleGeometries_ = EmptyPerThread
    /\ visibleLightsTemp_ = EmptyPerThread
    /\ visibleLights_ = <<>>
    /\ geometryBatches_ = EmptyPerThread
    /\ queuedDrawableUpdates_ = EmptyPerThread
    /\ threadedGeometryUpdates_ = EmptyPerThread
    /\ updateBatchesCalls = [d \in Objects |-> 0]
    /\ visited = {} /\ requested = {}
    /\ dpc = "idle"
    /\ dwork = [t \in Threads |-> NoWork]
    /\ dtaken = {}

VisibleNext ==
    \/ \E moved \in [Objects -> DrawableInputs] : OnUpdateBegin(moved)
    \/ \E t \in Threads, index \in 1 .. NumObjects : TakeElement(t, index)
    \/ \E t \in Threads : ProcessVisibleDrawable(t)
    \/ ProcessVisibleDrawablesEnd
    \/ \E t \in Threads : LightUpdateEnd(t)
    \/ ProcessLightsEnd
    \/ ProcessShadowCastersEnd

SpecVisible == VisibleInit /\ [][VisibleNext]_vars

\* ProcessVisibleDrawables returned in the frame.
AfterVisibleDrawables == dpc \in {"lights", "casters", "done"}

\* C14: after ProcessVisibleDrawables the visible lights are in ascending order of
\* their IDs, and no light is in the list twice.
C14_VisibleLightsSorted ==
    AfterVisibleDrawables =>
        \A i, j \in 1 .. Len(visibleLights_) :
            i < j => GetID(visibleLights_[i]) < GetID(visibleLights_[j])

\* Two lights were collected against the order of their IDs and are sorted.
C14_Witness ==
    /\ AfterVisibleDrawables
    /\ Len(visibleLights_) = 2
    /\ FlatElements(visibleLightsTemp_) = <<2, 1>>
    /\ visibleLights_ = <<1, 2>>

\* The lights of the frame that are within draw distance, have a colour and an
\* effective light mask.
InputLights ==
    { d \in Elements(frustumDrawables) :
        /\ drawableInput[d].isLight
        /\ ~(drawableInput[d].drawDistance > 0
                /\ drawableInput[d].distance > drawableInput[d].drawDistance)
        /\ d \in brightLights }

\* The geometries of the frame that are within draw distance.
InputGeometries ==
    { d \in Elements(frustumDrawables) :
        /\ ~drawableInput[d].isLight
        /\ ~(drawableInput[d].drawDistance > 0
                /\ drawableInput[d].distance > drawableInput[d].drawDistance) }

HalfSizeIsLarge(d) == boundingBox[d].edgeLength >= M_LARGE_VALUE
ViewSpaceMinZ(d) == boundingBox[d].viewCenterZ - boundingBox[d].viewEdgeZ
ViewSpaceMaxZ(d) == boundingBox[d].viewCenterZ + boundingBox[d].viewEdgeZ

\* Minimum of the minima and maximum of the maxima of the Z ranges of the finite
\* geometries of the frame; the invalid range if there is none.
InputZRange ==
    LET finite == { d \in InputGeometries : ~HalfSizeIsLarge(d) }
    IN IF finite = {} THEN NoRange
       ELSE <<CHOOSE z \in { ViewSpaceMinZ(d) : d \in finite } :
                    \A d \in finite : z <= ViewSpaceMinZ(d),
              CHOOSE z \in { ViewSpaceMaxZ(d) : d \in finite } :
                    \A d \in finite : z >= ViewSpaceMaxZ(d)>>

\* The processors of the lights in the order of their IDs, given the processors the
\* cache held before: the one the cache held, or else the next new one.
InputProcessors(cache) ==
    LET lights == Ascending(InputLights)
        held == Cardinality({ light \in Objects : cache[light] # NoProcessor })
    IN [i \in 1 .. Len(lights) |->
            IF cache[lights[i]] # NoProcessor THEN cache[lights[i]]
            ELSE held + Cardinality({ j \in 1 .. i : cache[lights[j]] = NoProcessor })]

\* C15: the visible lights, the light processors and the scene Z range that
\* ProcessVisibleDrawables leaves are functions of the drawables of the frame and of
\* the light processors cached before the frame: they are the same for every
\* assignment of the drawables to the threads and every interleaving of the threads.
C15_StageDeterministic ==
    [][(dpc = "visible" /\ dpc' = "lights")
        => /\ visibleLights_' = Ascending(InputLights)
           /\ lightProcessors_' = InputProcessors(lightProcessorCache_)
           /\ sceneZRange_' = InputZRange]_vars

\* Both threads collected a light and a Z range of their own, the drawables came in
\* descending order.
C15_Witness ==
    /\ AfterVisibleDrawables
    /\ \E t \in Threads : \E u \in Threads \ {t} :
            /\ Len(visibleGeometries_[t]) = 1 /\ Len(visibleGeometries_[u]) = 0
            /\ Len(visibleLightsTemp_[u]) = 1
            /\ IsValid(sceneZRangeTemp_[t]) /\ ~IsValid(sceneZRangeTemp_[u])
    /\ sceneZRange_ = InputZRange
    /\ Len(lightProcessors_) = 1

\* C17: after ProcessVisibleDrawables the scene Z range is the minimum of the minima
\* and the maximum of the maxima of the Z ranges of the geometries of the frame that
\* are within draw distance and whose half size is below the threshold; such a
\* geometry has its own Z range, and one whose half size reaches the threshold has
\* the range from M_LARGE_VALUE to M_LARGE_VALUE.
C17_SceneZRangeIsUnion ==
    AfterVisibleDrawables =>
        /\ sceneZRange_ = InputZRange
        /\ \A d \in InputGeometries :
                geometryZRanges_[d] =
                    IF HalfSizeIsLarge(d) THEN <<M_LARGE_VALUE, M_LARGE_VALUE>>
                    ELSE <<ViewSpaceMinZ(d), ViewSpaceMaxZ(d)>>

\* An "infinite" geometry and a finite one were visible: the scene Z range is the
\* range of the finite one.
C17_Witness ==
    /\ AfterVisibleDrawables
    /\ \E d, e \in InputGeometries :
            /\ HalfSizeIsLarge(d) /\ ~HalfSizeIsLarge(e)
            /\ geometryZRanges_[d] = <<M_LARGE_VALUE, M_LARGE_VALUE>>
            /\ sceneZRange_ = <<ViewSpaceMinZ(e), ViewSpaceMaxZ(e)>>
            /\ ViewSpaceMinZ(d) < ViewSpaceMinZ(e)

\* C18: over the frames, a light that has a processor in the cache keeps that
\* processor (no request creates a second one, the cache drops none), two lights
\* never have the same processor, and the processors ProcessVisibleDrawables gets
\* are the ones the cache holds for the visible lights.
C18_StableIdentityMap ==
    [][/\ \A light \in Objects :
            lightProcessorCache_[light] # NoProcessor
                => lightProcessorCache_'[light] = lightProcessorCache_[light]
       /\ \A light, other \in Objects :
            (light # other /\ lightProcessorCache_'[light] # NoProcessor)
                => lightProcessorCache_'[light] # lightProcessorCache_'[other]
       /\ (dpc = "visible" /\ dpc' = "lights")
            => /\ Len(lightProcessors_') = Len(visibleLights_')
               /\ \A i \in 1 .. Len(visibleLights_') :
                    /\ lightProcessors_'[i] # NoProcessor
                    /\ lightProcessors_'[i] = lightProcessorCache_'[visibleLights_'[i]]]_vars

\* The light with the larger ID was visible in an earlier frame and got the first
\* processor; both lights are visible now and the light has that processor again.
C18_Witness ==
    /\ AfterVisibleDrawables
    /\ visibleLights_ = <<1, 2>>
    /\ lightProcessors_ = <<2, 1>>

(***************************************************************************)
(* LightProcessor: shadow splits and shadow map of one light per frame.    *)
(***************************************************************************)
notLight ==
    <<cacheVars, createCalls, sceneVars, passVars, shadowVars, drawableVars, keyBatches,
      laterVars>>

\* Mutant: a cascade that ends at its near bound still becomes a split.
RECURSIVE DirectionalSplits_KeepingEmpty(_, _, _, _)
DirectionalSplits_KeepingEmpty(input, i, nearSplit, ranges) ==
    IF i > input.numShadowSplits \/ nearSplit > input.farClip THEN ranges
    ELSE LET farSplit == MinOf(input.farClip, input.cascadeSplits[i])
         IN DirectionalSplits_KeepingEmpty(input, i + 1, farSplit,
                                           Append(ranges, <<nearSplit, farSplit>>))

\* Mutant: the next cascade starts at the near bound of the one before.
RECURSIVE DirectionalSplits_NotAdvancing(_, _, _, _)
DirectionalSplits_NotAdvancing(input, i, nearSplit, ranges) ==
    IF i > input.numShadowSplits \/ nearSplit > input.farClip THEN ranges
    ELSE LET farSplit == MinOf(input.farClip, input.cascadeSplits[i])
         IN IF farSplit <= nearSplit THEN ranges
            ELSE DirectionalSplits_NotAdvancing(input, i + 1, nearSplit,
                                                Append(ranges, <<nearSplit, farSplit>>))

\* The loop of SetupShadowCameras over the cascades of a directional light, from
\* cascade i with near bound nearSplit: the Z ranges of the splits set up.
RECURSIVE DirectionalSplits(_, _, _, _)
DirectionalSplits(input, i, nearSplit, ranges) ==
    IF i > input.numShadowSplits \/ nearSplit > input.farClip THEN ranges
    ELSE LET farSplit == MinOf(input.farClip, input.cascadeSplits[i])
         IN IF farSplit <= nearSplit THEN ranges
            ELSE DirectionalSplits(input, i + 1, farSplit,
                                   Append(ranges, <<nearSplit, farSplit>>))

\* LightProcessor::SetupShadowCameras: the Z ranges of the directional splits, and
\* the number of splits.
SetupShadowCameras(input) ==
    LET ranges == IF input.lightType = "directional"
                  THEN DirectionalSplits(input, 1, input.nearClip, <<>>) ELSE <<>>
    IN [zRanges |-> ranges,
        numSplits |-> IF input.lightType = "directional" THEN Len(ranges)
                      ELSE IF input.lightType = "spot" THEN 1
                      ELSE MAX_CUBEMAP_FACES]

\* FloatRange::Interset: both ranges are valid and they overlap.
Interset(lhs, rhs) ==
    /\ lhs[1] <= lhs[2]
    /\ rhs[1] <= rhs[2]
    /\ lhs[1] <= rhs[2]
    /\ rhs[1] <= lhs[2]

\* The scene Z ranges the light processor is run with.
SceneZRanges == { <<1, MaxDistance>>, <<3, MaxDistance>> }

\* Mutant: six splits are laid out like five.
GetSplitsGridSize_TwoByTwoForSix(numSplits) ==
    IF numSplits = 1 THEN <<1, 1>>
    ELSE IF numSplits = 2 THEN <<2, 1>>
    ELSE IF numSplits <= 6 THEN <<2, 2>>
    ELSE <<3, 2>>

\* LightProcessor::GetSplitsGridSize
GetSplitsGridSize(numSplits) ==
    IF numSplits = 1 THEN <<1, 1>>
    ELSE IF numSplits = 2 THEN <<2, 1>>
    ELSE IF numSplits < 6 THEN <<2, 2>>
    ELSE <<3, 2>>

\* LightProcessor::HasShadow and GetSplits of LightProcessor.h
HasShadow == numSplits_ # 0
GetSplits == [i \in 1 .. numSplits_ |-> splits_[i]]

\* The splits that may end up with shadow casters among n splits.
CasterChoices(n) == { {}, {1}, {n}, 1 .. n } \cap SUBSET (1 .. n)

\* LightProcessor::BeginFrame(hasShadow)
LightBeginFrame(hasShadow) ==
    /\ lpc \in {"idle", "done"}
    /\ shadowMap_' = NoShadowMap
    /\ hasShadow_' = hasShadow
    /\ allocationFailed' = FALSE
    /\ regionsSet' = {}
    /\ shadowBatchSplits' = {}
    /\ tempShadowCasters_' = <<>>
    /\ lpc' = "begun"
    /\ UNCHANGED <<notLight, lightInput, numSplits_, shadowMapSize_, splits_, shadowParams_,
                   castShadows, splitShadowCasters_, shadowCasterBatches_, casterQuery>>

\* LightProcessor::UpdateLitGeometriesAndShadowCasters; withCasters: the splits whose
\* shadow casters ProcessShadowCasters found not empty.
UpdateLitGeometriesAndShadowCasters(withCasters) ==
    /\ lpc = "begun"
    /\ IF hasShadow_
       THEN LET setup == SetupShadowCameras(lightInput)
            IN /\ withCasters \in CasterChoices(setup.numSplits)
               \* A directional split out of the scene Z range is skipped.
               /\ lightInput.lightType = "directional" =>
                    \A i \in withCasters : Interset(sceneZRange_, setup.zRanges[i])
               /\ numSplits_' = setup.numSplits
               /\ splits_' = [i \in SplitIndices |->
                    IF i > setup.numSplits THEN splits_[i]
                    ELSE [shadowCasters_ |-> i \in withCasters,
                          shadowMap_ |-> splits_[i].shadowMap_,
                          zRange_ |-> IF i <= Len(setup.zRanges) THEN setup.zRanges[i]
                                      ELSE splits_[i].zRange_]]
       ELSE /\ withCasters = {}
            /\ UNCHANGED <<numSplits_, splits_>>
    /\ lpc' = "updated"
    /\ UNCHANGED <<notLight, casterVars, lightInput, hasShadow_, shadowMap_, shadowMapSize_,
                   shadowParams_, allocationFailed, regionsSet, shadowBatchSplits>>

\* LightProcessor::FinalizeShadowMap
FinalizeShadowMap ==
    /\ lpc = "updated"
    /\ IF ~hasShadow_
       THEN UNCHANGED <<hasShadow_, shadowMapSize_>>
       ELSE IF ~\E i \in 1 .. numSplits_ : splits_[i].shadowCasters_
       THEN hasShadow_' = FALSE /\ UNCHANGED shadowMapSize_
       ELSE LET shadowMapSplitSize == IF lightInput.lightType # "point" THEN 512 ELSE 256
                grid == GetSplitsGridSize(numSplits_)
            IN /\ shadowMapSize_' = <<shadowMapSplitSize * grid[1], shadowMapSplitSize * grid[2]>>
               /\ UNCHANGED hasShadow_
    /\ lpc' = "sized"
    /\ UNCHANGED <<notLight, casterVars, lightInput, numSplits_, shadowMap_, splits_, shadowParams_,
                   allocationFailed, regionsSet, shadowBatchSplits>>

\* Mutant: a failed allocation leaves the splits as they are.
SetShadowMap_KeepingSplits(shadowMap) ==
    /\ lpc = "sized"
    /\ hasShadow_
    /\ IF shadowMap = NoShadowMap
       THEN /\ allocationFailed' = TRUE
            /\ UNCHANGED <<numSplits_, shadowMap_, splits_, regionsSet>>
       ELSE /\ shadowMap_' = shadowMap
            /\ splits_' = [i \in SplitIndices |->
                    IF i <= numSplits_ THEN [splits_[i] EXCEPT !.shadowMap_ = shadowMap]
                    ELSE splits_[i]]
            /\ regionsSet' = 1 .. numSplits_
            /\ UNCHANGED <<numSplits_, allocationFailed>>
    /\ lpc' = "mapped"
    /\ UNCHANGED <<notLight, casterVars, lightInput, hasShadow_, shadowMapSize_, shadowParams_,
                   shadowBatchSplits>>

\* LightProcessor::SetShadowMap(shadowMap) for a light that still has shadows after
\* FinalizeShadowMap; shadowMap is what the allocator returned, NoShadowMap on failure.
SetShadowMap(shadowMap) ==
    /\ lpc = "sized"
    /\ hasShadow_
    /\ IF shadowMap = NoShadowMap
       THEN /\ numSplits_' = 0
            /\ allocationFailed' = TRUE
            /\ UNCHANGED <<shadowMap_, splits_, regionsSet>>
       ELSE /\ shadowMap_' = shadowMap
            /\ splits_' = [i \in SplitIndices |->
                    IF i <= numSplits_ THEN [splits_[i] EXCEPT !.shadowMap_ = shadowMap]
                    ELSE splits_[i]]
            /\ regionsSet' = 1 .. numSplits_
            /\ UNCHANGED <<numSplits_, allocationFailed>>
    /\ lpc' = "mapped"
    /\ UNCHANGED <<notLight, casterVars, lightInput, hasShadow_, shadowMapSize_, shadowParams_,
                   shadowBatchSplits>>

\* No shadow map is allocated for a light without shadows.
SkipShadowMap ==
    /\ lpc = "sized"
    /\ ~hasShadow_
    /\ lpc' = "mapped"
    /\ UNCHANGED <<notLight, casterVars, lightInput, hasShadow_, numSplits_, shadowMap_, shadowMapSize_,
                   splits_, shadowParams_, allocationFailed, regionsSet, shadowBatchSplits>>

\* LightProcessor::FinalizeShaderParameters: the shadow parameters are cooked only
\* with a shadow map.
FinalizeShaderParameters ==
    /\ lpc = "mapped"
    /\ shadowParams_' = (shadowMap_ # NoShadowMap)
    /\ lpc' = "cooked"
    /\ UNCHANGED <<notLight, casterVars, lightInput, hasShadow_, numSplits_, shadowMap_, shadowMapSize_,
                   splits_, allocationFailed, regionsSet, shadowBatchSplits>>

\* The shadow batches of the light are collected for every split of GetSplits.
CollectLightShadowBatches ==
    /\ lpc = "cooked"
    /\ shadowBatchSplits' = { i \in 1 .. Len(GetSplits) : GetSplits[i].shadowCasters_ }
    /\ shadowCasterBatches_' = [i \in SplitIndices |->
            IF i <= numSplits_ THEN SelectSeq(splitShadowCasters_[i], AddsShadowBatch)
            ELSE shadowCasterBatches_[i]]
    /\ lpc' = "done"
    /\ UNCHANGED <<notLight, lightInput, hasShadow_, numSplits_, shadowMap_, shadowMapSize_,
                   splits_, shadowParams_, allocationFailed, regionsSet, castShadows,
                   tempShadowCasters_, splitShadowCasters_, casterQuery>>

LightInputs ==
    { LightInput("directional", numShadowSplits, cascadeSplits, nearClip, farClip) :
        numShadowSplits \in 1 .. MaxCascades,
        cascadeSplits \in [1 .. MaxCascades -> 0 .. MaxDistance],
        nearClip \in {1, 2}, farClip \in 1 .. MaxDistance }
    \cup { LightInput(lightType, 1, NoCascade, 1, MaxDistance) : lightType \in {"spot", "point"} }

LightInit ==
    /\ CacheIdle
    /\ createCalls = NoCreateCalls
    /\ SceneIdle
    /\ PassIdle
    /\ DrawableIdle
    /\ CasterIdle
    /\ ShadowCameraIdle
    /\ StageIdle
    /\ RestIdle
    /\ sceneZRange_ \in SceneZRanges
    /\ lightInput \in LightInputs
    /\ hasShadow_ = FALSE
    /\ numSplits_ = 0
    /\ shadowMap_ = NoShadowMap
    /\ shadowMapSize_ = <<0, 0>>
    /\ splits_ = [i \in SplitIndices |-> EmptySplit]
    /\ shadowParams_ = FALSE
    /\ lpc = "idle"
    /\ allocationFailed = FALSE
    /\ regionsSet = {}
    /\ shadowBatchSplits = {}

LightNext ==
    \/ \E hasShadow \in BOOLEAN : LightBeginFrame(hasShadow)
    \/ \E withCasters \in SUBSET SplitIndices : UpdateLitGeometriesAndShadowCasters(withCasters)
    \/ FinalizeShadowMap
    \/ \E shadowMap \in {NoShadowMap, 1} : SetShadowMap(shadowMap)
    \/ SkipShadowMap
    \/ FinalizeShaderParameters
    \/ CollectLightShadowBatches

SpecLight == LightInit /\ [][LightNext]_vars

(***************************************************************************)
(* Claims about the light processor.                                       *)
(***************************************************************************)
\* The near bound of cascade i of a directional light: the near clip for the first
\* cascade, the end of the previous cascade clamped to the far clip otherwise.
NearBound(input, i) ==
    IF i = 1 THEN input.nearClip ELSE MinOf(input.farClip, input.cascadeSplits[i - 1])

\* Cascade i has a non-empty Z range within the camera's range.
CascadeActive(input, i) ==
    NearBound(input, i) < MinOf(input.farClip, input.cascadeSplits[i])

\* The number of leading requested cascades with a non-empty Z range.
ActiveCascades(input) ==
    Cardinality({ k \in 1 .. input.numShadowSplits :
                    \A i \in 1 .. k : CascadeActive(input, i) })

\* The cascade table ascends strictly from beyond the near clip, and the camera's
\* range is not empty.
SaneCascades(input) ==
    /\ input.nearClip < input.cascadeSplits[1]
    /\ input.nearClip <= input.farClip
    /\ \A i \in 2 .. MaxCascades : input.cascadeSplits[i - 1] < input.cascadeSplits[i]

SetUp == lpc = "updated" /\ hasShadow_

\* C9 as stated: after SetupShadowCameras a shadowed directional light has
\* min(requested cascades, cascades whose near bound is not beyond the far clip)
\* active splits.
C9_SplitCountByNearBound ==
    (SetUp /\ lightInput.lightType = "directional" /\ SaneCascades(lightInput)) =>
        numSplits_ = MinOf(lightInput.numShadowSplits,
            Cardinality({ i \in 1 .. MaxCascades :
                (IF i = 1 THEN lightInput.nearClip ELSE lightInput.cascadeSplits[i - 1])
                    <= lightInput.farClip }))

\* C9 amended: after SetupShadowCameras a shadowed light has 1 active split if it is
\* a spot light, 6 if it is a point light, and if it is directional as many as there
\* are leading requested cascades whose near bound is strictly below the end of the
\* cascade clamped to the far clip; never more than the light type allows.
C9_SplitCount ==
    SetUp =>
        /\ lightInput.lightType = "spot" => numSplits_ = 1
        /\ lightInput.lightType = "point" => numSplits_ = MAX_CUBEMAP_FACES
        /\ lightInput.lightType = "directional" =>
            /\ numSplits_ = ActiveCascades(lightInput)
            /\ numSplits_ <= lightInput.numShadowSplits
            /\ \A i \in 1 .. numSplits_ :
                 splits_[i].zRange_[1] < splits_[i].zRange_[2]

\* Three cascades are requested of an ascending table and the far clip lies at the
\* end of the second one: two splits are active.
C9_Witness ==
    /\ SetUp
    /\ lightInput.lightType = "directional"
    /\ SaneCascades(lightInput)
    /\ lightInput.numShadowSplits = 3
    /\ lightInput.farClip = lightInput.cascadeSplits[2]
    /\ numSplits_ = 2

\* The requested cascades of a directional light lie in ascending order inside the
\* range from zMin to zMax, the last one at most at zMax.
CascadesInside(input, zMin, zMax) ==
    /\ zMin < input.cascadeSplits[1]
    /\ \A i \in 2 .. input.numShadowSplits : input.cascadeSplits[i - 1] < input.cascadeSplits[i]
    /\ input.cascadeSplits[input.numShadowSplits] <= zMax

\* The active splits are the requested cascades, chained from zMin without gap or
\* overlap: [zMin, c1], [c1, c2], ...
ChainedFrom(input, zMin) ==
    /\ numSplits_ = input.numShadowSplits
    /\ \A i \in 1 .. input.numShadowSplits :
        splits_[i].zRange_ = <<IF i = 1 THEN zMin ELSE input.cascadeSplits[i - 1],
                               input.cascadeSplits[i]>>

\* C13 as stated: the cascades lie inside the scene Z range and end at its maximum,
\* and the splits are chained from the minimum of the scene Z range.
C13_ChainedFromSceneRange ==
    (/\ SetUp
     /\ lightInput.lightType = "directional"
     /\ CascadesInside(lightInput, sceneZRange_[1], sceneZRange_[2])
     /\ lightInput.cascadeSplits[lightInput.numShadowSplits] = sceneZRange_[2])
        => ChainedFrom(lightInput, sceneZRange_[1])

\* C13 amended: if the requested cascades ascend from beyond the near clip of the
\* cull camera up to at most its far clip, all of them are active and their Z
\* ranges are chained from the near clip without gap or overlap.
C13_ChainedFromNearClip ==
    (/\ SetUp
     /\ lightInput.lightType = "directional"
     /\ CascadesInside(lightInput, lightInput.nearClip, lightInput.farClip))
        => ChainedFrom(lightInput, lightInput.nearClip)

\* Three cascades ending at the far clip are set up, from a near clip that is not
\* the minimum of the scene Z range.
C13_Witness ==
    /\ SetUp
    /\ lightInput.lightType = "directional"
    /\ lightInput.numShadowSplits = 3
    /\ CascadesInside(lightInput, lightInput.nearClip, lightInput.farClip)
    /\ lightInput.cascadeSplits[3] = lightInput.farClip
    /\ sceneZRange_[1] # lightInput.nearClip
    /\ numSplits_ = 3

\* C10: once the allocation of the shadow map of a light failed, for the rest of the
\* frame the light reports no shadow and has no active split, no split got a region
\* of a shadow map, no shadow batch is collected for it, and the frame goes on.
C10_AllocationFailureDisablesShadow ==
    allocationFailed =>
        /\ ~HasShadow
        /\ numSplits_ = 0
        /\ Len(GetSplits) = 0
        /\ regionsSet = {}
        /\ shadowMap_ = NoShadowMap
        /\ shadowBatchSplits = {}
        /\ lpc \in {"mapped", "cooked", "done"}
        /\ lpc = "cooked" => ~shadowParams_
        /\ ENABLED LightNext

\* The allocation failed for a point light with shadow casters, and the frame is over.
C10_Witness ==
    /\ allocationFailed
    /\ lpc = "done"
    /\ lightInput.lightType = "point"
    /\ \E i \in SplitIndices : splits_[i].shadowCasters_

(***************************************************************************)
(* LightProcessor: the shadow casters of the splits, drawable by drawable. *)
(***************************************************************************)
\* The drawables of the octree in the order the octree hands them to a query.
OctreeDrawables == [d \in 1 .. NumDrawables |-> d]

\* Mutant: the query of the spot and point lights forgets Drawable::GetCastShadows.
IsLitOrShadowCaster_IgnoringCastShadows(d, withShadowCasters, isInside) ==
    /\ withShadowCasters
    /\ isInside
    /\ BitAnd(casterSettings[d].shadowMask, lightMask) # 0

\* The second component of Spot/PointLightLitGeometriesQuery::IsLitOrShadowCaster;
\* withShadowCasters: shadowCasters_ is not null; isInside: drawable flags, view mask
\* and volume test passed.
IsLitOrShadowCaster(d, withShadowCasters, isInside) ==
    /\ withShadowCasters
    /\ isInside
    /\ castShadows[d]
    /\ BitAnd(casterSettings[d].shadowMask, lightMask) # 0

\* Mutant: the query of the directional light forgets Drawable::GetCastShadows.
IsShadowCaster_IgnoringCastShadows(d, isInside) ==
    /\ BitAnd(casterSettings[d].shadowMask, lightMask) # 0
    /\ isInside

\* DirectionalLightShadowCasterOctreeQuery::IsShadowCaster
IsShadowCaster(d, isInside) ==
    /\ castShadows[d]
    /\ BitAnd(casterSettings[d].shadowMask, lightMask) # 0
    /\ isInside

\* LightProcessor::CollectLitGeometriesAndMaybeShadowCasters: tempShadowCasters_ after it.
CollectMaybeShadowCasters(query) ==
    IF lightInput.lightType # "directional" /\ hasShadow_
    THEN SelectSeq(OctreeDrawables,
                   LAMBDA d : IsLitOrShadowCaster(d, hasShadow_, d \in query.inside))
    ELSE tempShadowCasters_

\* The result of the query for the shadow casters of a directional split.
DirectionalShadowCasters(query) ==
    SelectSeq(OctreeDrawables, LAMBDA d : IsShadowCaster(d, d \in query.inside))

\* DrawableProcessor::PreprocessShadowCasters: the candidates kept for split i.
PreprocessShadowCasters(candidates, query, i) ==
    SelectSeq(candidates, LAMBDA d : i \in query.kept[d])

\* LightProcessor::UpdateLitGeometriesAndShadowCasters with the lists of drawables;
\* query holds what the octree and the frustum tests answer.
UpdateShadowCasterLists(query) ==
    /\ lpc = "begun"
    /\ casterQuery' = query
    /\ IF hasShadow_
       THEN LET setup == SetupShadowCameras(lightInput)
                collected == CollectMaybeShadowCasters(query)
                \* Point faces out of view and directional splits out of the scene
                \* range are skipped, the split of a spot light never is.
                processed == IF lightInput.lightType = "spot" THEN 1 .. setup.numSplits
                             ELSE query.reached \cap (1 .. setup.numSplits)
                candidates == IF lightInput.lightType = "directional"
                              THEN DirectionalShadowCasters(query) ELSE collected
            IN /\ numSplits_' = setup.numSplits
               /\ tempShadowCasters_' =
                    IF lightInput.lightType = "directional" /\ processed # {}
                    THEN candidates ELSE collected
               /\ splitShadowCasters_' = [i \in SplitIndices |->
                    IF i > setup.numSplits THEN splitShadowCasters_[i]
                    ELSE IF i \in processed THEN PreprocessShadowCasters(candidates, query, i)
                    ELSE <<>>]
               /\ shadowCasterBatches_' = [i \in SplitIndices |->
                    IF i > setup.numSplits THEN shadowCasterBatches_[i] ELSE <<>>]
               /\ splits_' = [i \in SplitIndices |->
                    IF i > setup.numSplits THEN splits_[i]
                    ELSE [shadowCasters_ |-> splitShadowCasters_'[i] # <<>>,
                          shadowMap_ |-> splits_[i].shadowMap_,
                          zRange_ |-> IF i <= Len(setup.zRanges) THEN setup.zRanges[i]
                                      ELSE splits_[i].zRange_]]
       ELSE /\ tempShadowCasters_' = CollectMaybeShadowCasters(query)
            /\ UNCHANGED <<numSplits_, splits_, splitShadowCasters_, shadowCasterBatches_>>
    /\ lpc' = "updated"
    /\ UNCHANGED <<notLight, lightInput, hasShadow_, shadowMap_, shadowMapSize_,
                   shadowParams_, allocationFailed, regionsSet, shadowBatchSplits,
                   castShadows>>

\* The lights of the shadow caster collection: a directional light of two cascades,
\* a spot light and a point light.
CasterLights ==
    { LightInput("directional", 2, [i \in 1 .. MaxCascades |-> 2 * i], 1, MaxDistance),
      LightInput("spot", 1, NoCascade, 1, MaxDistance),
      LightInput("point", 1, NoCascade, 1, MaxDistance) }

\* What the octree and the frustum tests may answer.
CasterQueries ==
    { CasterQuery(inside, reached, kept) :
        inside \in SUBSET Drawables,
        reached \in { {1}, SplitIndices },
        kept \in { [d \in Drawables |-> SplitIndices], [d \in Drawables |-> {1}],
                   [d \in Drawables |-> IF d = 1 THEN {} ELSE SplitIndices] } }

CasterInit ==
    /\ CacheIdle
    /\ createCalls = NoCreateCalls
    /\ shape = [d \in Drawables |-> BaseShape]
    /\ litGeometries = {}
    /\ pixelLights = [d \in Drawables |-> <<>>]
    /\ mainLightIndex = NoLightIndex
    /\ lightHash = [l \in Lights |-> l]
    /\ kind = "none"
    /\ shadowCasters = [s \in Splits |-> <<>>]
    /\ \E masks \in [Drawables -> {1, 2}] :
            casterSettings = [d \in Drawables |-> CasterSetting(masks[d], 0, 0, 2, TRUE)]
    /\ lightMask \in {1, 3}
    /\ PassIdle
    /\ DrawableIdle
    /\ LaterIdle
    /\ castShadows \in [Drawables -> BOOLEAN]
    /\ tempShadowCasters_ = <<>>
    /\ splitShadowCasters_ = NoCasters
    /\ shadowCasterBatches_ = NoCasters
    /\ casterQuery = NoQuery
    /\ lightInput \in CasterLights
    /\ hasShadow_ = FALSE
    /\ numSplits_ = 0
    /\ shadowMap_ = NoShadowMap
    /\ shadowMapSize_ = <<0, 0>>
    /\ splits_ = [i \in SplitIndices |-> EmptySplit]
    /\ shadowParams_ = FALSE
    /\ lpc = "idle"
    /\ allocationFailed = FALSE
    /\ regionsSet = {}
    /\ shadowBatchSplits = {}

CasterNext ==
    \/ \E hasShadow \in BOOLEAN : LightBeginFrame(hasShadow)
    \/ \E query \in CasterQueries : UpdateShadowCasterLists(query)
    \/ FinalizeShadowMap
    \/ \E shadowMap \in {NoShadowMap, 1} : SetShadowMap(shadowMap)
    \/ SkipShadowMap
    \/ FinalizeShaderParameters
    \/ CollectLightShadowBatches

SpecCaster == CasterInit /\ [][CasterNext]_vars

\* The drawables in the shadow caster lists and in the shadow batches of the splits.
ListedCasters ==
    UNION { Elements(splitShadowCasters_[i]) \cup Elements(shadowCasterBatches_[i]) :
                i \in SplitIndices }

\* C11: a drawable that does not cast shadows is in no split's list of shadow
\* casters, in no shadow batch and not among the shadow caster candidates, whatever
\* the light type and the masks.
C11_NonCastersNeverListed ==
    \A d \in Drawables :
        ~castShadows[d] => d \notin ListedCasters \cup Elements(tempShadowCasters_)

\* A frame is over in which a drawable that does not cast shadows was inside the
\* volume of the shadowed light, with a shadow mask the light mask overlaps and kept
\* by the frustum tests, while the other drawable got a shadow batch.
C11_Witness ==
    /\ lpc = "done"
    /\ hasShadow_
    /\ \E d \in Drawables :
        /\ ~castShadows[d]
        /\ d \in casterQuery.inside
        /\ casterQuery.kept[d] = SplitIndices
        /\ BitAnd(casterSettings[d].shadowMask, lightMask) # 0
    /\ \E i \in 1 .. numSplits_ : shadowCasterBatches_[i] # <<>>

(***************************************************************************)
(* SceneLightShadowSplit: size of the directional shadow camera.  Lengths  *)
(* are whole numbers of one unit, so that the rule is computed exactly.    *)
(***************************************************************************)
MaxQuantize == 2
MaxMinView == 4
MaxViewSize == 5

notShadowCamera == <<earlierVars, sceneZRange_, stageVars, restVars>>

\* ceilf(sqrtf(size / quantize)): the least n with n * n * quantize >= size.
CeilSqrt(size, quantize) ==
    CHOOSE n \in 0 .. size : n * n * quantize >= size /\ \A m \in 0 .. n - 1 : m * m * quantize < size

\* Quantize one length: Max(n * n * quantize_, minView_) with n = CeilSqrt.
QuantizeLength(parameters, size) ==
    LET n == CeilSqrt(size, parameters.quantize_)
    IN MaxOf(n * n * parameters.quantize_, parameters.minView_)

\* The size rule of QuantizeDirLightShadowCamera: the view size set on the shadow
\* camera for a view box of the given size.
QuantizeViewSize(parameters, viewSize) ==
    IF parameters.nonUniform_
    THEN <<QuantizeLength(parameters, viewSize[1]), QuantizeLength(parameters, viewSize[2])>>
    ELSE IF parameters.focus_
    THEN LET size == QuantizeLength(parameters, MaxOf(viewSize[1], viewSize[2]))
         IN <<size, size>>
    ELSE viewSize

\* Camera::SetOrthoSize(Vector2): the height is the ortho size, width by height the
\* aspect ratio, kept as a fraction.
SetOrthoSize(camera, viewSize) ==
    [camera EXCEPT !.orthoSize_ = viewSize[2], !.aspectRatio_ = <<viewSize[1], viewSize[2]>>]

\* The size of the view box FinalizeShadowCamera rebuilds from the shadow camera:
\* twice max_.x_ = aspect ratio * ortho size, twice max_.y_ = ortho size.
CameraViewSize(camera) ==
    <<(camera.aspectRatio_[1] * camera.orthoSize_) \div camera.aspectRatio_[2],
      camera.orthoSize_>>

\* SceneLightShadowSplit::QuantizeDirLightShadowCamera
QuantizeDirLightShadowCamera(camera, viewSize) ==
    SetOrthoSize(camera, QuantizeViewSize(camera.parameters, viewSize))

\* The end of the set-up of the directional shadow camera of a frame: the shadow
\* box of size viewBox is centred and quantized, the shadow map being unknown.
SetupDirLightShadowCamera(viewBox) ==
    /\ shadowCamera_.pc \in {"idle", "finalized"}
    /\ shadowCamera_.parameters.nonUniform_ \/ viewBox[1] = viewBox[2]
    /\ LET camera == QuantizeDirLightShadowCamera(shadowCamera_, viewBox)
       IN shadowCamera_' = [camera EXCEPT !.viewBox = viewBox,
                                           !.setupSize = CameraViewSize(camera),
                                           !.pc = "setup"]
    /\ UNCHANGED notShadowCamera

\* SceneLightShadowSplit::FinalizeShadowCamera of a directional light
FinalizeShadowCamera ==
    /\ shadowCamera_.pc = "setup"
    /\ shadowCamera_' =
        [QuantizeDirLightShadowCamera(shadowCamera_, CameraViewSize(shadowCamera_))
            EXCEPT !.pc = "finalized"]
    /\ UNCHANGED notShadowCamera

FocusParameters ==
    [quantize_ : 1 .. MaxQuantize, minView_ : 1 .. MaxMinView,
     nonUniform_ : BOOLEAN, focus_ : BOOLEAN]

ViewSizes == (1 .. MaxViewSize) \X (1 .. MaxViewSize)

QuantizeInit ==
    /\ EarlierIdle
    /\ SceneZRangeIdle
    /\ StageIdle
    /\ RestIdle
    /\ \E parameters \in FocusParameters :
        shadowCamera_ = [parameters |-> parameters, viewBox |-> <<1, 1>>, orthoSize_ |-> 1,
                         aspectRatio_ |-> <<1, 1>>, setupSize |-> <<1, 1>>, pc |-> "idle"]

QuantizeNext ==
    \/ \E viewBox \in ViewSizes : SetupDirLightShadowCamera(viewBox)
    \/ FinalizeShadowCamera

SpecQuantize == QuantizeInit /\ [][QuantizeNext]_vars

\* C12 as stated: the requantization of FinalizeShadowCamera leaves the view size
\* of the shadow camera as QuantizeDirLightShadowCamera set it during the set-up.
C12_RequantizationKeepsSize ==
    shadowCamera_.pc = "finalized" => CameraViewSize(shadowCamera_) = shadowCamera_.setupSize

(***************************************************************************)
(* DrawableProcessor::ProcessForwardLighting                               *)
(***************************************************************************)
MaxLightingCalls == 3

notLighting ==
    <<earlierVars, shadowCamera_, sceneZRange_, stageVars, processVars, bufferVars, splitVars, hashVars, geometryVars, addBatchVars, cameraVars, colorVars, textureVars, penaltyVars, focusVars>>

\* Mutant: the index that equals the number of visible lights passes.
InvalidLightIndex_OffByOne(lightIndex) == lightIndex > Len(visibleLights_)

\* The check of the light index; the indices start at 0.
InvalidLightIndex(lightIndex) == lightIndex >= Len(visibleLights_)

\* DrawableProcessor::ProcessForwardLighting up to the start of its parallel loop.
ProcessForwardLighting(lightIndex, geometries) ==
    /\ litGeometries_ = NoLoop
    /\ lightingCalls < MaxLightingCalls
    /\ lightingCalls' = lightingCalls + 1
    /\ lightIndex_' = lightIndex
    /\ IF InvalidLightIndex(lightIndex)
       THEN /\ lightingErrors' = lightingErrors + 1
            /\ UNCHANGED <<geometryLighting_, litGeometries_, lightingTaken, lightingWork,
                           lightingLoops>>
       ELSE /\ litGeometries_' = geometries
            /\ lightingTaken' = {}
            /\ lightingLoops' = lightingLoops + 1
            /\ UNCHANGED <<geometryLighting_, lightingErrors, lightingWork>>
    /\ UNCHANGED notLighting

\* A thread of the work queue takes a lit geometry of the loop.
TakeLitGeometry(t, index) ==
    /\ litGeometries_ # NoLoop
    /\ lightingWork[t] = 0
    /\ index \in (1 .. Len(litGeometries_)) \ lightingTaken
    /\ lightingWork' = [lightingWork EXCEPT ![t] = index]
    /\ lightingTaken' = lightingTaken \cup {index}
    /\ UNCHANGED <<notLighting, geometryLighting_, lightingErrors, lightingCalls, lightIndex_,
                   litGeometries_, lightingLoops>>

\* The body of the loop: LightAccumulator::AccumulateLight on the accumulator of the
\* geometry the thread took.
AccumulateLight(t) ==
    /\ litGeometries_ # NoLoop
    /\ lightingWork[t] # 0
    /\ LET drawableIndex == litGeometries_[lightingWork[t]]
       IN geometryLighting_' = [geometryLighting_ EXCEPT ![drawableIndex] = @ \cup {lightIndex_}]
    /\ lightingWork' = [lightingWork EXCEPT ![t] = 0]
    /\ UNCHANGED <<notLighting, lightingErrors, lightingCalls, lightIndex_, litGeometries_,
                   lightingTaken, lightingLoops>>

\* The loop joined: ProcessForwardLighting returns.
ProcessForwardLightingEnd ==
    /\ litGeometries_ # NoLoop
    /\ lightingTaken = 1 .. Len(litGeometries_)
    /\ \A t \in Threads : lightingWork[t] = 0
    /\ litGeometries_' = NoLoop
    /\ lightingTaken' = {}
    /\ UNCHANGED <<notLighting, geometryLighting_, lightingErrors, lightingCalls, lightIndex_,
                   lightingWork, lightingLoops>>

\* The visibility stage of the frame is over and left no, one or two visible lights.
LightingInit ==
    /\ CacheIdle
    /\ createCalls = NoCreateCalls
    /\ SceneIdle
    /\ PassIdle
    /\ LightIdle
    /\ ShadowCameraIdle
    /\ SceneZRangeIdle
    /\ StageIdle
    /\ RestIdle
    /\ keyBatches = <<>>
    /\ drawableInput = [d \in Objects |-> DrawableInput(FALSE, 0, 0, "none")]
    /\ frustumDrawables = <<>>
    /\ casterCandidates = [task \in LightTasks |-> <<>>]
    /\ needAmbient_ = FALSE
    /\ isDrawableUpdated_ = [d \in Objects |-> FALSE]
    /\ geometryFlags_ = [d \in Objects |-> {}]
    /\ visibleGeometries_ = EmptyPerThread
    /\ visibleLightsTemp_ = EmptyPerThread
    /\ visibleLights_ \in {<<>>, <<1>>, <<1, 2>>}
    /\ geometryBatches_ = EmptyPerThread
    /\ queuedDrawableUpdates_ = EmptyPerThread
    /\ threadedGeometryUpdates_ = EmptyPerThread
    /\ updateBatchesCalls = [d \in Objects |-> 0]
    /\ visited = {} /\ requested = {}
    /\ dpc = "done"
    /\ dwork = [t \in Threads |-> NoWork]
    /\ dtaken = {}

LightingNext ==
    \/ \E lightIndex \in 0 .. (NumObjects + 1),
          geometries \in UNION { Orders(lit) : lit \in SUBSET Objects } :
            ProcessForwardLighting(lightIndex, geometries)
    \/ \E t \in Threads, index \in 1 .. NumObjects : TakeLitGeometry(t, index)
    \/ \E t \in Threads : AccumulateLight(t)
    \/ ProcessForwardLightingEnd

SpecLighting == LightingInit /\ [][LightingNext]_vars

\* C16: a call of ProcessForwardLighting with a light index that is not smaller than
\* the number of visible lights logs one error, changes no light accumulator and
\* starts no parallel loop; a light accumulator changes only in the loop of a call
\* with a smaller index.
C16_InvalidIndexIsNoOp ==
    [][/\ (lightingCalls' # lightingCalls /\ lightIndex_' >= Len(visibleLights_))
            => /\ lightingErrors' = lightingErrors + 1
               /\ UNCHANGED <<geometryLighting_, litGeometries_, lightingTaken, lightingWork,
                              lightingLoops>>
       /\ geometryLighting_' # geometryLighting_
            => /\ litGeometries_ # NoLoop
               /\ lightIndex_ < Len(visibleLights_)]_vars

\* After a call that lit both geometries by the second of two visible lights, the
\* call with the index 2 logged an error.
C16_Witness ==
    /\ Len(visibleLights_) = 2
    /\ lightingCalls = 2
    /\ lightIndex_ = 2
    /\ lightingErrors = 1
    /\ lightingLoops = 1
    /\ litGeometries_ = NoLoop
    /\ \A d \in Objects : geometryLighting_[d] = {1}

(***************************************************************************)
(* DrawableProcessor::ProcessLights                                        *)
(***************************************************************************)
notProcess ==
    <<earlierVars, shadowCamera_, sceneZRange_, stageVars, lightingVars, bufferVars, splitVars, hashVars, geometryVars, addBatchVars, cameraVars, colorVars, textureVars, penaltyVars, focusVars>>

\* IntVector2 sizes of shadow maps: none, one region, two regions side by side.
ShadowMapSizes == { <<0, 0>>, <<1, 1>>, <<2, 1>> }

\* The light of a light processor.
GetLight(processor) == CHOOSE light \in Objects : lightProcessorCache_[light] = processor

\* compareShadowMapSize of SortLightProcessorsByShadowMap; the lengths are compared
\* by their squares.
CompareShadowMapSize(lhs, rhs) ==
    LET lhsSize == shadowMapSizes_[lhs]
        rhsSize == shadowMapSizes_[rhs]
    IN IF lhsSize # rhsSize
       THEN lhsSize[1] * lhsSize[1] + lhsSize[2] * lhsSize[2]
                > rhsSize[1] * rhsSize[1] + rhsSize[2] * rhsSize[2]
       ELSE GetID(GetLight(lhs)) < GetID(GetLight(rhs))

\* Mutant: the light processors without shadow map are left out.
SortedByShadowMap_WithShadowOnly(processors) ==
    LET HasShadowMap(processor) == shadowMapSizes_[processor] # <<0, 0>>
    IN SelectSeq(processors, HasShadowMap)

\* DrawableProcessor::SortLightProcessorsByShadowMap: the copy of the light
\* processors, sorted with compareShadowMapSize.
RECURSIVE SortedByShadowMap(_)
SortedByShadowMap(processors) ==
    IF processors = <<>> THEN <<>>
    ELSE LET processor == Head(processors)
             sorted == SortedByShadowMap(Tail(processors))
             NotAfter(other) == ~CompareShadowMapSize(processor, other)
             After(other) == CompareShadowMapSize(processor, other)
         IN SelectSeq(sorted, NotAfter) \o <<processor>> \o SelectSeq(sorted, After)

\* A call a light processor received, and the thread that made it.
LightEvent(call, processor, t) == <<call, processor, t>>

\* DrawableProcessor::ProcessLights is called.
ProcessLights ==
    /\ plc \in {"idle", "done"}
    /\ plc' = "begin"
    /\ pcursor' = 1
    /\ lightEvents' = <<>>
    /\ UNCHANGED <<notProcess, lightProcessorsByShadowMapSize_, shadowMapSizes_, ptaken, pwork>>

\* The first loop of ProcessLights: BeginUpdate of the next light processor.
BeginUpdate ==
    /\ plc = "begin"
    /\ pcursor <= Len(lightProcessors_)
    /\ lightEvents' =
            Append(lightEvents, LightEvent("BeginUpdate", lightProcessors_[pcursor], MainThread))
    /\ pcursor' = pcursor + 1
    /\ UNCHANGED <<notProcess, lightProcessorsByShadowMapSize_, shadowMapSizes_, plc, ptaken,
                   pwork>>

\* The first loop is through: the parallel loop starts.
ProcessLightsFork ==
    /\ plc = "begin"
    /\ pcursor > Len(lightProcessors_)
    /\ plc' = "update"
    /\ ptaken' = {}
    /\ UNCHANGED <<notProcess, lightProcessorsByShadowMapSize_, shadowMapSizes_, pcursor, pwork,
                   lightEvents>>

\* A thread of the work queue takes a light processor and calls its Update.
UpdateStart(t, index) ==
    /\ plc = "update"
    /\ pwork[t] = 0
    /\ index \in (1 .. Len(lightProcessors_)) \ ptaken
    /\ pwork' = [pwork EXCEPT ![t] = index]
    /\ ptaken' = ptaken \cup {index}
    /\ lightEvents' = Append(lightEvents, LightEvent("Update", lightProcessors_[index], t))
    /\ UNCHANGED <<notProcess, lightProcessorsByShadowMapSize_, shadowMapSizes_, plc, pcursor>>

\* Update of the light processor returns; it decided the size of the shadow map.
UpdateReturn(t, size) ==
    /\ plc = "update"
    /\ pwork[t] # 0
    /\ shadowMapSizes_' = [shadowMapSizes_ EXCEPT ![lightProcessors_[pwork[t]]] = size]
    /\ lightEvents' =
            Append(lightEvents, LightEvent("UpdateReturn", lightProcessors_[pwork[t]], t))
    /\ pwork' = [pwork EXCEPT ![t] = 0]
    /\ UNCHANGED <<notProcess, lightProcessorsByShadowMapSize_, plc, pcursor, ptaken>>

\* The parallel loop joined: SortLightProcessorsByShadowMap.
SortLightProcessorsByShadowMap ==
    /\ plc = "update"
    /\ ptaken = 1 .. Len(lightProcessors_)
    /\ \A t \in Threads : pwork[t] = 0
    /\ lightProcessorsByShadowMapSize_' = SortedByShadowMap(lightProcessors_)
    /\ plc' = "end"
    /\ pcursor' = 1
    /\ UNCHANGED <<notProcess, shadowMapSizes_, ptaken, pwork, lightEvents>>

\* The last loop of ProcessLights: EndUpdate of the next light processor.
EndUpdate ==
    /\ plc = "end"
    /\ pcursor <= Len(lightProcessorsByShadowMapSize_)
    /\ lightEvents' =
            Append(lightEvents,
                   LightEvent("EndUpdate", lightProcessorsByShadowMapSize_[pcursor], MainThread))
    /\ pcursor' = pcursor + 1
    /\ UNCHANGED <<notProcess, lightProcessorsByShadowMapSize_, shadowMapSizes_, plc, ptaken,
                   pwork>>

\* ProcessLights returns.
ProcessLightsReturn ==
    /\ plc = "end"
    /\ pcursor > Len(lightProcessorsByShadowMapSize_)
    /\ plc' = "done"
    /\ UNCHANGED <<notProcess, lightProcessorsByShadowMapSize_, shadowMapSizes_, pcursor, ptaken,
                   pwork, lightEvents>>

\* The visibility stage left the light processors of no, one or two visible lights;
\* the processor of a light carries the number of the light.
ProcessInit ==
    /\ EarlierIdle
    /\ ShadowCameraIdle
    /\ SceneZRangeIdle
    /\ RestIdle
    /\ brightLights = {}
    /\ boundingBox = [d \in Objects |-> BoundingBox(2, 1, 1)]
    /\ geometryZRanges_ = [d \in Objects |-> NoRange]
    /\ sceneZRangeTemp_ = [t \in Threads |-> NoRange]
    /\ lightProcessorCache_ = [light \in Objects |-> light]
    /\ lightProcessors_ \in { Ascending(lights) : lights \in SUBSET Objects }

ProcessNext ==
    \/ ProcessLights
    \/ BeginUpdate
    \/ ProcessLightsFork
    \/ \E t \in Threads, index \in 1 .. NumObjects : UpdateStart(t, index)
    \/ \E t \in Threads, size \in ShadowMapSizes : UpdateReturn(t, size)
    \/ SortLightProcessorsByShadowMap
    \/ EndUpdate
    \/ ProcessLightsReturn

SpecProcess == ProcessInit /\ [][ProcessNext]_vars

\* The calls a light processor received, in their order.
CallsOf(processor) ==
    LET OfProcessor(event) == event[2] = processor
        events == SelectSeq(lightEvents, OfProcessor)
    IN [i \in 1 .. Len(events) |-> events[i][1]]

FullUpdate == <<"BeginUpdate", "Update", "UpdateReturn", "EndUpdate">>

\* C19: in a call of ProcessLights no Update starts before the last BeginUpdate, no
\* EndUpdate starts before every Update returned, BeginUpdate and EndUpdate are
\* called by the calling thread, and every light processor of the frame receives
\* BeginUpdate, Update and EndUpdate in this order, each once when ProcessLights
\* returned.
C19_ForkJoinPhases ==
    /\ \A i, j \in 1 .. Len(lightEvents) :
            i < j => /\ lightEvents[j][1] = "BeginUpdate" => lightEvents[i][1] = "BeginUpdate"
                     /\ lightEvents[i][1] = "EndUpdate" => lightEvents[j][1] = "EndUpdate"
    /\ \A i \in 1 .. Len(lightEvents) :
            lightEvents[i][1] \in {"BeginUpdate", "EndUpdate"} => lightEvents[i][3] = MainThread
    /\ \A processor \in Objects :
            LET calls == CallsOf(processor)
            IN /\ Len(calls) <= Len(FullUpdate)
               /\ calls = SubSeq(FullUpdate, 1, Len(calls))
               /\ (calls # <<>>) => \E i \in 1 .. Len(lightProcessors_) :
                                        lightProcessors_[i] = processor
    /\ plc = "done" =>
            \A i \in 1 .. Len(lightProcessors_) : CallsOf(lightProcessors_[i]) = FullUpdate

\* Two light processors were updated at the same time on two threads, and the one
\* with the larger shadow map got its EndUpdate first.
C19_Witness ==
    /\ plc = "done"
    /\ Len(lightEvents) = 8
    /\ lightEvents[3][1] = "Update" /\ lightEvents[4][1] = "Update"
    /\ lightEvents[3][3] # lightEvents[4][3]
    /\ lightEvents[7] = LightEvent("EndUpdate", 2, MainThread)
    /\ lightEvents[8] = LightEvent("EndUpdate", 1, MainThread)

(***************************************************************************)
(* RenderBufferManager::SetRenderTargetsRect                               *)
(***************************************************************************)
MaxRenderErrors == 2
MaxClearCommands == 1

notBuffer ==
    <<earlierVars, shadowCamera_, sceneZRange_, stageVars, lightingVars, processVars, splitVars, hashVars, geometryVars, addBatchVars, cameraVars, colorVars, textureVars, penaltyVars, focusVars>>

\* A render buffer: its render surface, its viewport rectangle, and when the
\* depth-stencil buffer is compatible with it.
RenderBuffer(surface, viewportRect, compatible) ==
    [surface |-> surface, viewportRect |-> viewportRect, compatible |-> compatible]

\* RenderBuffer::IsCompatibleWith of the depth-stencil buffer.
IsCompatibleWith(colorBuffer, ignoreRect) ==
    \/ colorBuffer.compatible = "always"
    \/ colorBuffer.compatible = "ignoringRect" /\ ignoreRect

\* Mutant: a color buffer without render surface is taken in every slot.
DefaultOutsideSlot0_Never(colorBuffers) == FALSE

\* The last check of PrepareRenderSurfaces: a color buffer without render surface in
\* a slot other than #0. The slots start at 0, the sequence at 1.
DefaultOutsideSlot0(colorBuffers) ==
    \E i \in 1 .. Len(colorBuffers) : colorBuffers[i].surface = NoSurface /\ i - 1 # 0

\* PrepareRenderSurfaces: whether it logged an error, and the render surfaces.
PrepareRenderSurfaces(ignoreRect, depthStencilBuffer, colorBuffers) ==
    IF depthStencilBuffer = NoBuffer THEN [error |-> TRUE]
    ELSE IF Len(colorBuffers) > MAX_RENDERTARGETS THEN [error |-> TRUE]
    ELSE IF \E i \in 1 .. Len(colorBuffers) : ~IsCompatibleWith(colorBuffers[i], ignoreRect)
    THEN [error |-> TRUE]
    ELSE IF DefaultOutsideSlot0(colorBuffers) THEN [error |-> TRUE]
    ELSE [error |-> FALSE,
          depthStencil_ |-> depthStencilBuffer.surface,
          renderTargets_ |-> [i \in 1 .. MAX_RENDERTARGETS |->
                IF i <= Len(colorBuffers) THEN colorBuffers[i].surface ELSE NoSurface]]

\* RenderBufferManager::SetRenderTargetsRect with SetRenderSurfaces.
SetRenderTargetsRect(viewportRect, depthStencilBuffer, colorBuffers) ==
    LET ignoreRect == viewportRect # ZeroRect
        renderSurfaces == PrepareRenderSurfaces(ignoreRect, depthStencilBuffer, colorBuffers)
    IN /\ renderCall' = RenderCall(viewportRect, depthStencilBuffer, colorBuffers)
       /\ IF renderSurfaces.error
          THEN /\ renderErrors < MaxRenderErrors
               /\ renderErrors' = renderErrors + 1
               /\ UNCHANGED graphics_
          ELSE /\ graphics_' =
                    [renderTargets |-> renderSurfaces.renderTargets_,
                     depthStencil |-> renderSurfaces.depthStencil_,
                     viewport |-> IF viewportRect = ZeroRect THEN depthStencilBuffer.viewportRect
                                  ELSE viewportRect]
               /\ UNCHANGED renderErrors
       /\ UNCHANGED notBuffer

\* The backbuffer, a texture, and a texture that fits the depth-stencil buffer only
\* with an explicit viewport rectangle.
ColorBuffers ==
    { RenderBuffer(NoSurface, 1, "always"), RenderBuffer(1, 1, "always"),
      RenderBuffer(1, 1, "ignoringRect") }

DepthStencilBuffers == { NoBuffer, RenderBuffer(2, 1, "always") }

\* Up to two color buffers of any kind, alone or followed by three textures.
ColorBufferLists ==
    { first \o rest :
        first \in SeqsUpTo(ColorBuffers, 2),
        rest \in { <<>>, [i \in 1 .. 3 |-> RenderBuffer(1, 1, "always")] } }

BufferInit ==
    /\ EarlierIdle
    /\ ShadowCameraIdle
    /\ SceneZRangeIdle
    /\ StageIdle
    /\ RestIdle

\* RenderBufferManager::ClearOutputRect: SetRenderTargetsRect with the output buffers,
\* then Graphics::Clear, which clears what the device has bound at that moment.
ClearOutputRect(viewportRect, depthStencilOutput, colorOutput) ==
    /\ Len(clearCommands) < MaxClearCommands
    /\ SetRenderTargetsRect(viewportRect, depthStencilOutput, <<colorOutput>>)
    /\ clearCommands' = Append(clearCommands, graphics_')

BufferNext ==
    \/ \E viewportRect \in {ZeroRect, 2}, depthStencilBuffer \in DepthStencilBuffers,
          colorBuffers \in ColorBufferLists :
            /\ SetRenderTargetsRect(viewportRect, depthStencilBuffer, colorBuffers)
            /\ UNCHANGED clearCommands
    \/ \E viewportRect \in {ZeroRect, 2}, depthStencilOutput \in DepthStencilBuffers,
          colorOutput \in ColorBuffers :
            ClearOutputRect(viewportRect, depthStencilOutput, colorOutput)

SpecBuffer == BufferInit /\ [][BufferNext]_vars

\* The configurations that are to be rejected.
Rejected(call) ==
    \/ call.depthStencilBuffer = NoBuffer
    \/ Len(call.colorBuffers) > MAX_RENDERTARGETS
    \/ \E i \in 1 .. Len(call.colorBuffers) :
            ~IsCompatibleWith(call.colorBuffers[i], call.viewportRect # ZeroRect)
    \/ \E i \in 2 .. Len(call.colorBuffers) : call.colorBuffers[i].surface = NoSurface

\* C20: a call of SetRenderTargetsRect without depth-stencil buffer, with more than
\* MAX_RENDERTARGETS color buffers, with a color buffer the depth-stencil buffer is
\* not compatible with, or with the backbuffer in a slot other than #0 logs an error
\* and leaves render targets, depth-stencil and viewport of the device as they were.
C20_RejectedLeavesDevice ==
    [][(bufferVars' # bufferVars /\ Rejected(renderCall'))
        => /\ graphics_' = graphics_
           /\ renderErrors' = renderErrors + 1]_vars

\* The device has a texture as render target #0 and the viewport of an accepted call;
\* the latest call had the backbuffer in slot #1 and logged an error.
C20_Witness ==
    /\ graphics_.renderTargets[1] = 1
    /\ graphics_.depthStencil = 2
    /\ graphics_.viewport = 2
    /\ renderErrors = 1
    /\ renderCall.depthStencilBuffer # NoBuffer
    /\ Len(renderCall.colorBuffers) = 2
    /\ renderCall.colorBuffers[1].surface = NoSurface
    /\ renderCall.colorBuffers[2] = RenderBuffer(NoSurface, 1, "always")

(***************************************************************************)
(* ShadowScenePass over casters of all masks and distances.                *)
(***************************************************************************)
\* The shadow casters of the admission checks: shadow mask in the zone, shadow
\* distance and draw distance absent, below and above the distance 2 of the caster.
ShadowCasterSettings ==
    { CasterSetting(shadowMask, shadowDistance, drawDistance, 2, shadowPass) :
        shadowMask \in {1, 2}, shadowDistance \in {0, 1, 3}, drawDistance \in {0, 1, 3},
        shadowPass \in BOOLEAN }

\* A shadow pass whose first split holds both drawables and whose second split holds
\* the first one.
ShadowInit ==
    /\ CacheIdle
    /\ createCalls = NoCreateCalls
    /\ PassIdle
    /\ DrawableIdle
    /\ LightIdle
    /\ LaterIdle
    /\ shape = [d \in Drawables |-> BaseShape]
    /\ lightHash = [l \in Lights |-> l]
    /\ kind = "shadow"
    /\ litGeometries = {}
    /\ pixelLights = [d \in Drawables |-> <<>>]
    /\ mainLightIndex = NoLightIndex
    /\ shadowCasters = [s \in Splits |-> IF s = 1 THEN Ascending(Drawables) ELSE <<1>>]
    /\ casterSettings \in [Drawables -> ShadowCasterSettings]
    /\ \A d \in Drawables \ {1} : casterSettings[d] \in CasterSettings
    /\ lightMask \in {0, 1, 3}

ShadowNext ==
    \/ ShadowBeginFrame
    \/ ClearShadowCasterBatches
    \/ \E t \in Threads, index \in 1 .. NumSplits : TakeIndex(t, index)
    \/ \E t \in Threads : CollectShadowBatches(t)
    \/ ShadowJoin
    \/ ResolveBegin
    \/ FinalizeShadowBatch
    \/ FinalizeShadowBatchesEnd
    \/ GetSortedShadowBatches
    \/ ShadowInvalidatePipelineStateCache

SpecShadow == ShadowInit /\ [][ShadowNext]_vars

\* The drawables that have a shadow batch in the split.
ShadowBatchDrawables(s) == { shadowBatches_[s][i].drawable_ : i \in 1 .. Len(shadowBatches_[s]) }

\* C21 as stated: no split holds a shadow batch of a drawable whose shadow mask in
\* its zone has no bit in common with the light mask.
C21_DisjointMasksSkipped ==
    \A s \in Splits : \A d \in ShadowBatchDrawables(s) :
        BitAnd(casterSettings[d].shadowMask, lightMask) # 0

\* ---------------------------------------------------------------------------
\* DrawableProcessor::PreprocessShadowCasters against the light space geometry.
\* The light space is reduced to two axes: X, along which the cull camera looks,
\* and Z, the direction of the light; frusta are their bounding boxes.
\* ---------------------------------------------------------------------------

notSplit ==
    <<cacheVars, createCalls, sceneVars, passVars, shadowVars, keyBatches, lightVars,
      shadowCamera_, sceneZRange_, stageVars, lightingVars, processVars, bufferVars, hashVars, geometryVars, addBatchVars, cameraVars, colorVars, textureVars, penaltyVars, focusVars>>

\* The extent of the view frustum along the direction of the light, the far clip
\* of a perspective shadow camera, and M_EPSILON, which is below the grid.
FrustumMinZ == 2
FrustumMaxZ == 3
ShadowFarClip == 4
M_EPSILON == 0

\* FloatRange::operator &: the intersection of two ranges.
RangeIntersection(lhs, rhs) == <<MaxOf(lhs[1], rhs[1]), MinOf(lhs[2], rhs[2])>>

\* Camera::GetSplitFrustum transformed to the light space.
GetSplitFrustum(nearClip, farClip) ==
    Box(<<nearClip, FrustumMinZ>>, <<farClip, FrustumMaxZ>>)

\* Frustum::IsInsideFast(box) != OUTSIDE.
IsInsideFast(frustum, box) ==
    \A axis \in 1 .. 2 :
        box.min[axis] <= frustum.max[axis] /\ frustum.min[axis] <= box.max[axis]

\* Mutant: every shadow of an orthographic light is taken to be inside.
IsBoundingBoxShadowInOrthoFrustum_AlwaysInside(box, frustum, frustumBoundingBox) == TRUE

\* IsBoundingBoxShadowInOrthoFrustum: the box is extruded up to the far edge of the
\* light space bounding box of the frustum.
IsBoundingBoxShadowInOrthoFrustum(box, frustum, frustumBoundingBox) ==
    LET extrudedBoundingBox ==
            Box(box.min,
                <<box.max[1], MaxOf(box.max[2], frustumBoundingBox.max[2])>>)
    IN IsInsideFast(frustum, extrudedBoundingBox)

\* Vector3::Length, exact for the vectors of the model.
Length(v) == CHOOSE n \in 0 .. 16 : n * n = v[1] * v[1] + v[2] * v[2]

Clamp(value, min, max) == IF value < min THEN min ELSE IF value > max THEN max ELSE value

\* BoundingBox::Merge.
Merge(a, b) ==
    Box(<<MinOf(a.min[1], b.min[1]), MinOf(a.min[2], b.min[2])>>,
        <<MaxOf(a.max[1], b.max[1]), MaxOf(a.max[2], b.max[2])>>)

\* IsBoundingBoxShadowInPerspectiveFrustum: the box is moved along the ray from the
\* light through its centre to the extrusion distance, grows by the ratio of the
\* distances, and is merged with the original.
IsBoundingBoxShadowInPerspectiveFrustum(box, frustum, extrusionDistance) ==
    LET center == <<(box.min[1] + box.max[1]) \div 2,
                    (box.min[2] + box.max[2]) \div 2>>
        size == <<box.max[1] - box.min[1],
                  box.max[2] - box.min[2]>>
        originalDistance == Clamp(Length(center), M_EPSILON, extrusionDistance)
        newCenter == <<(extrusionDistance * center[1]) \div Length(center),
                       (extrusionDistance * center[2]) \div Length(center)>>
        newHalfSize == <<(size[1] * extrusionDistance) \div (2 * originalDistance),
                         (size[2] * extrusionDistance) \div (2 * originalDistance)>>
        extrudedBox == Box(<<newCenter[1] - newHalfSize[1], newCenter[2] - newHalfSize[2]>>,
                           <<newCenter[1] + newHalfSize[1], newCenter[2] + newHalfSize[2]>>)
    IN IsInsideFast(frustum, Merge(extrudedBox, box))

\* IsShadowCasterVisible.
IsShadowCasterVisible(lightSpaceBox, shadowCamera, lightSpaceFrustum, lightSpaceFrustumBoundingBox) ==
    IF shadowCamera.orthographic
    THEN IsBoundingBoxShadowInOrthoFrustum(lightSpaceBox, lightSpaceFrustum,
                                           lightSpaceFrustumBoundingBox)
    ELSE IsBoundingBoxShadowInPerspectiveFrustum(lightSpaceBox, lightSpaceFrustum,
                                                 shadowCamera.farClip)

\* The frustum (or sub-frustum) of the split in the light space.
LightSpaceFrustum ==
    LET splitZRange == IF splitLight.lightType # "directional" THEN sceneZRange_
                       ELSE RangeIntersection(sceneZRange_, frustumSubRange)
    IN GetSplitFrustum(splitZRange[1], splitZRange[2])

\* The loop of PreprocessShadowCasters from candidate i on; state holds the
\* shadowCasters list, isDrawableUpdated_ and queuedDrawableUpdates_.
RECURSIVE PreprocessCandidates(_, _, _)
PreprocessCandidates(state, i, t) ==
    IF i > Len(splitCandidates) THEN state
    ELSE LET drawable == splitCandidates[i]
             isDrawableVisible == "Visible" \in geometryFlags_[drawable]
             tested == TestAndSet(state.isDrawableUpdated_, drawable)
         IN IF splitLight.lightType = "point" /\ ~insideShadowCamera[drawable]
            THEN PreprocessCandidates(state, i + 1, t)
            ELSE IF isDrawableVisible
                    \/ IsShadowCasterVisible(lightSpaceBoundingBox[drawable], splitLight,
                                             LightSpaceFrustum, LightSpaceFrustum)
            THEN PreprocessCandidates(
                     [shadowCasters |-> Append(state.shadowCasters, drawable),
                      isDrawableUpdated_ |-> tested.flags,
                      queuedDrawableUpdates_ |->
                          IF tested.old THEN state.queuedDrawableUpdates_
                          ELSE PushBack(state.queuedDrawableUpdates_, t, drawable)],
                     i + 1, t)
            ELSE PreprocessCandidates(state, i + 1, t)

\* DrawableProcessor::PreprocessShadowCasters called by thread t for the split.
PreprocessSplit(t) ==
    /\ preprocessCalls = 0
    /\ preprocessCalls' = 1
    /\ LET cleared == [shadowCasters |-> <<>>, isDrawableUpdated_ |-> isDrawableUpdated_,
                       queuedDrawableUpdates_ |-> queuedDrawableUpdates_]
           degenerate == LightSpaceFrustum.min[1] = LightSpaceFrustum.max[1]
           result == IF degenerate THEN cleared ELSE PreprocessCandidates(cleared, 1, t)
       IN /\ splitCasters' = result.shadowCasters
          /\ isDrawableUpdated_' = result.isDrawableUpdated_
          /\ queuedDrawableUpdates_' = result.queuedDrawableUpdates_
    /\ UNCHANGED <<notSplit, splitLight, frustumSubRange, splitCandidates, lightSpaceBoundingBox,
                   insideShadowCamera, drawableInput, frustumDrawables, casterCandidates,
                   needAmbient_, geometryFlags_, visibleGeometries_, visibleLightsTemp_,
                   visibleLights_, geometryBatches_, threadedGeometryUpdates_,
                   updateBatchesCalls, visited, requested, dpc, dwork, dtaken>>

\* The boxes of the drawables: unit half size, centred on an axis of the light space.
CandidateBoxes ==
    { Box(<<c[1] - 1, c[2] - 1>>, <<c[1] + 1, c[2] + 1>>) :
        c \in { <<2, 0>>, <<4, 0>>, <<0, 2>>, <<0, 4>>, <<8, 0>> } }

\* The scene Z range of the frame, and the sub-ranges of the splits.
SplitSceneZRange == <<1, 5>>
FrustumSubRanges == { <<1, 3>>, <<3, 5>>, <<5, 7>> }

SplitInit ==
    /\ CacheIdle
    /\ createCalls = NoCreateCalls
    /\ SceneIdle
    /\ PassIdle
    /\ LightIdle
    /\ ShadowCameraIdle
    /\ StageIdle
    /\ RestIdleExcept("split")
    /\ keyBatches = <<>>
    /\ drawableInput = [d \in Objects |-> DrawableInput(FALSE, 0, 0, "none")]
    /\ frustumDrawables = <<>>
    /\ casterCandidates = [task \in LightTasks |-> <<>>]
    /\ needAmbient_ = FALSE
    /\ visibleGeometries_ = EmptyPerThread
    /\ visibleLightsTemp_ = EmptyPerThread
    /\ visibleLights_ = <<>>
    /\ geometryBatches_ = EmptyPerThread
    /\ queuedDrawableUpdates_ = EmptyPerThread
    /\ threadedGeometryUpdates_ = EmptyPerThread
    /\ updateBatchesCalls = [d \in Objects |-> 0]
    /\ visited = {}
    /\ requested = {}
    /\ dpc = "idle"
    /\ dwork = [t \in Threads |-> NoWork]
    /\ dtaken = {}
    /\ sceneZRange_ = SplitSceneZRange
    /\ splitLight \in { SplitLight("directional", TRUE, 0),
                        SplitLight("spot", FALSE, ShadowFarClip),
                        SplitLight("point", FALSE, ShadowFarClip) }
    /\ frustumSubRange \in FrustumSubRanges
    /\ splitCandidates = Ascending(Objects)
    /\ lightSpaceBoundingBox \in [Objects -> CandidateBoxes]
    /\ insideShadowCamera \in [Objects -> BOOLEAN]
    /\ geometryFlags_ \in [Objects -> {{}, {"Visible"}}]
    \* A drawable is flagged visible only inside the view frustum of the frame.
    /\ \A d \in Objects :
           "Visible" \in geometryFlags_[d] =>
               IsInsideFast(GetSplitFrustum(sceneZRange_[1], sceneZRange_[2]),
                            lightSpaceBoundingBox[d])
    \* ProcessVisibleDrawable set the flag of every visible drawable.
    /\ isDrawableUpdated_ = [d \in Objects |-> "Visible" \in geometryFlags_[d]]
    /\ splitCasters = <<>>
    /\ preprocessCalls = 0

SplitNext == \E t \in Threads : PreprocessSplit(t)

SpecSplit == SplitInit /\ [][SplitNext]_vars

\* The shadow of the box reaches the frustum: some point of the frustum lies in
\* the box moved along the direction of the light (orthographic camera).
ShadowReachesFrustum(d) ==
    IF splitLight.orthographic
    THEN \E x \in LightSpaceFrustum.min[1] .. LightSpaceFrustum.max[1] :
         \E z \in LightSpaceFrustum.min[2] .. LightSpaceFrustum.max[2] :
            /\ lightSpaceBoundingBox[d].min[1] <= x
            /\ x <= lightSpaceBoundingBox[d].max[1]
            /\ lightSpaceBoundingBox[d].min[2] <= z
    ELSE IsBoundingBoxShadowInPerspectiveFrustum(lightSpaceBoundingBox[d], LightSpaceFrustum,
                                                 splitLight.farClip)

SplitCasterSet == { splitCasters[i] : i \in 1 .. Len(splitCasters) }

\* C22 as stated: a drawable in the caster list of the split has a shadow that
\* reaches the light space frustum of the split.
C22_OnlyExtrudedInsideKept ==
    preprocessCalls = 1 => \A d \in SplitCasterSet : ShadowReachesFrustum(d)

\* C22: a drawable in the caster list of the split is flagged visible in the frame
\* or has a shadow that reaches the light space frustum of the split; for a point
\* light it is inside the frustum of the shadow camera as well.
C22_VisibleOrExtrudedInsideKept ==
    preprocessCalls = 1 =>
        \A d \in SplitCasterSet :
            /\ "Visible" \in geometryFlags_[d] \/ ShadowReachesFrustum(d)
            /\ splitLight.lightType = "point" => insideShadowCamera[d]

\* A drawable that is not visible is kept for its shadow, another one is dropped.
C22_Witness ==
    /\ preprocessCalls = 1
    /\ \E d \in SplitCasterSet : "Visible" \notin geometryFlags_[d]
    /\ \E d \in Objects : d \notin SplitCasterSet

\* ---------------------------------------------------------------------------
\* Shadow casters and their geometry updates (SpecDrawable).
\* ---------------------------------------------------------------------------

\* The number of times UpdateDrawableZone and QueueDrawableGeometryUpdate ran for
\* the drawable in the frame: both run together, in the geometry path of
\* ProcessVisibleDrawable and in ProcessQueuedDrawable.
GeometryUpdates(d) == Count(d, FlatElements(threadedGeometryUpdates_))

\* ProcessVisibleDrawable handled the drawable and left at "Skip if too far".
SkippedAsTooFar(d) ==
    /\ d \in visited
    /\ drawableInput[d].drawDistance > 0
    /\ drawableInput[d].distance > drawableInput[d].drawDistance

RankedPixelLights == { <<>>, <<1>>, <<2>>, <<1, 2>>, <<2, 1>> }

LitInit ==
    /\ CacheIdle
    /\ createCalls = NoCreateCalls
    /\ PassIdle
    /\ DrawableIdle
    /\ LightIdle
    /\ LaterIdle
    /\ shape = [d \in Drawables |-> BaseShape]
    /\ lightHash = [l \in Lights |-> l]
    /\ kind = "forward"
    /\ litGeometries \in SUBSET Drawables
    /\ pixelLights \in [Drawables -> RankedPixelLights]
    /\ \A d \in Drawables : d \notin litGeometries => pixelLights[d] = <<>>
    /\ mainLightIndex \in {NoLightIndex, 1, 2}
    /\ shadowCasters = [s \in Splits |-> <<>>]
    /\ casterSettings = [d \in Drawables |-> DefaultCaster]
    /\ lightMask = 1

LitNext ==
    \/ BeginFrame
    \/ AddSourceBatches
    \/ InvalidatePipelineStateCache
    \/ \E d \in Drawables, material \in {1, 2} : SetMaterial(d, material)
    \/ \E t \in Threads, index \in 1 .. NumDrawables : TakeIndex(t, index)
    \/ CollectUnlitBegin
    \/ \E t \in Threads : UnlitLambda(t)
    \/ UnlitJoin
    \/ ResolveBegin
    \/ UnlitResolve
    \/ CollectLitBegin
    \/ \E t \in Threads : LitLambda(t)
    \/ LitJoin
    \/ LitBaseResolve
    \/ LitBaseResolved
    \/ LightResolve
    \/ CollectSceneBatchesEnd
    \/ SortSceneBatches

SpecLit == LitInit /\ [][LitNext]_vars

\* The parallel loop of CollectLitBatches joined in the frame.
LitCollected == pc \in {"litResolveBase", "litResolveLight", "collected", "sorted"}

\* The light batches of the drawable that apply the light.
LightBatchesOf(d, l) ==
    Count([drawable_ |-> d, lightIndex_ |-> l],
          [i \in 1 .. Len(FlatElements(lightBatches_)) |->
              [drawable_ |-> FlatElements(lightBatches_)[i].drawable_,
               lightIndex_ |-> FlatElements(lightBatches_)[i].lightIndex_]])

\* C24: for every lit batch of an object with ranked pixel lights p the base batch
\* carries the main light iff p is not empty and p[1] is the main light, and no
\* light otherwise; every remaining pixel light (p from 2 on with a lit base, all of
\* p without) has exactly one light batch, and no other light has one.
C24_LitBaseAndLightBatches ==
    LitCollected =>
        \A i \in 1 .. Len(litBatches_) :
            LET d == litBatches_[i]
                p == pixelLights[d]
                lit == Len(p) > 0 /\ p[1] = mainLightIndex
                remaining == { p[j] : j \in (IF lit THEN 2 ELSE 1) .. Len(p) }
            IN /\ litBaseBatches_[i].drawable_ = d
               /\ litBaseBatches_[i].lightIndex_ = IF lit THEN mainLightIndex ELSE NoLightIndex
               /\ \A l \in Lights :
                      LightBatchesOf(d, l) = IF l \in remaining THEN 1 ELSE 0

\* One object has a lit base with the main light and one light batch; the other has
\* the main light ranked second: no lit base and two light batches.
C24_Witness ==
    /\ LitCollected
    /\ mainLightIndex = 1
    /\ \E i \in 1 .. Len(litBatches_) :
            /\ pixelLights[litBatches_[i]] = <<1, 2>>
            /\ litBaseBatches_[i].lightIndex_ = 1
            /\ LightBatchesOf(litBatches_[i], 2) = 1
    /\ \E i \in 1 .. Len(litBatches_) :
            /\ pixelLights[litBatches_[i]] = <<2, 1>>
            /\ litBaseBatches_[i].lightIndex_ = NoLightIndex
            /\ LightBatchesOf(litBatches_[i], 1) = 1

\* ---------------------------------------------------------------------------
\* The shadow distance of CollectShadowBatches (SpecShadow).
\* ---------------------------------------------------------------------------

\* The shadow batches of the drawable in the split.
ShadowBatchesOf(s, d) ==
    Cardinality({ i \in 1 .. Len(shadowBatches_[s]) : shadowBatches_[s][i].drawable_ = d })

\* The parallel loop over the splits joined in the frame.
ShadowCollected == pc \in {"shadowResolve", "shadowCollected"}

\* The effective maximum shadow distance: the shadow distance, lowered to the draw
\* distance when that is positive and the shadow distance is non-positive or larger.
EffectiveShadowDistance(setting) ==
    IF setting.drawDistance > 0
        /\ (setting.shadowDistance <= 0 \/ setting.shadowDistance > setting.drawDistance)
    THEN setting.drawDistance
    ELSE setting.shadowDistance

\* C25: a shadow caster beyond its positive effective maximum shadow distance has
\* no shadow batch in its split; any other caster that passed the mask check has
\* one batch for its source batch if that has a shadow pass, and none otherwise.
C25_ShadowDistance ==
    ShadowCollected =>
        \A s \in Splits : \A i \in 1 .. Len(shadowCasters[s]) :
            LET d == shadowCasters[s][i]
                setting == casterSettings[d]
                maxShadowDistance == EffectiveShadowDistance(setting)
                beyond == maxShadowDistance > 0 /\ setting.distance > maxShadowDistance
                admitted == ~SkippedByShadowMask(setting.shadowMask, lightMask)
            IN ShadowBatchesOf(s, d) =
                    IF admitted /\ ~beyond /\ setting.shadowPass THEN 1 ELSE 0

\* The first caster is beyond the draw distance that lowered its larger shadow
\* distance and has no batch; the second caster of the split has its batch.
C25_Witness ==
    /\ ShadowCollected
    /\ casterSettings[1].shadowDistance = 3
    /\ casterSettings[1].drawDistance = 1
    /\ casterSettings[1].shadowPass
    /\ ShadowBatchesOf(1, 1) = 0
    /\ ShadowBatchesOf(1, 2) = 1

\* ---------------------------------------------------------------------------
\* LightProcessor::RecalculatePipelineStateHash. An unsigned is the pair of its
\* high and low 16 bits.
\* ---------------------------------------------------------------------------

Half == 65536

\* The unsigned of a number below 2^31.
Unsigned(n) == <<n \div Half, n % Half>>

\* 0x9e3779b9
GoldenRatio == <<40503, 31161>>

\* a ^ b of numbers.
RECURSIVE XorBits(_, _)
XorBits(a, b) ==
    IF a = 0 THEN b
    ELSE IF b = 0 THEN a
    ELSE ((a + b) % 2) + 2 * XorBits(a \div 2, b \div 2)

\* a + b, a ^ b, a << 6 and a >> 2 of unsigned.
Add(a, b) == <<(a[1] + b[1] + ((a[2] + b[2]) \div Half)) % Half, (a[2] + b[2]) % Half>>
Xor(a, b) == <<XorBits(a[1], b[1]), XorBits(a[2], b[2])>>
ShiftLeft6(a) == <<(a[1] * 64 + a[2] \div 1024) % Half, (a[2] * 64) % Half>>
ShiftRight2(a) == <<a[1] \div 4, a[2] \div 4 + (a[1] % 4) * 16384>>

\* CombineHash(unsigned& result, unsigned hash):
\* result ^= hash + 0x9e3779b9 + (result << 6) + (result >> 2).
CombineHash(result, hash) ==
    Xor(result, Add(Add(Add(hash, GoldenRatio), ShiftLeft6(result)), ShiftRight2(result)))

\* Floats are counted in thousandths. The conversion of a float that is not
\* negative to unsigned drops the fraction.
Thousand == 1000
FloatToUnsigned(value) == Unsigned(value \div Thousand)

\* LightType
LIGHT_DIRECTIONAL == 0
LIGHT_SPOT == 1
LIGHT_POINT == 2

\* What RecalculatePipelineStateHash reads of the light and of its processor.
LightState(lightType, hasShadow, shapeTexture, specularIntensity, normalOffset, constantBias,
           slopeScaledBias) ==
    [lightType |-> lightType, hasShadow |-> hasShadow, shapeTexture |-> shapeTexture,
     specularIntensity |-> specularIntensity, normalOffset |-> normalOffset,
     constantBias |-> constantBias, slopeScaledBias |-> slopeScaledBias]

Bit(condition) == IF condition THEN 1 ELSE 0

\* LightProcessor::RecalculatePipelineStateHash; the flags are or-ed into bits that
\* do not overlap.
RecalculatePipelineStateHash(state) ==
    LET flags == Unsigned((state.lightType % 4)
                          + 4 * Bit(state.hasShadow)
                          + 8 * Bit(state.shapeTexture)
                          + 16 * Bit(state.specularIntensity > 0)
                          + 32 * Bit(state.normalOffset > 0))
    IN CombineHash(CombineHash(flags, FloatToUnsigned(state.constantBias)),
                   FloatToUnsigned(state.slopeScaledBias))

\* The light of the light processor with the given hasShadow_: no shape texture,
\* specular intensity 1, the default bias (constant 0.0002, rounded to 0
\* thousandths, slope scaled 0.5, no normal offset).
ProcessedLight(hasShadow) ==
    LightState(CASE lightInput.lightType = "directional" -> LIGHT_DIRECTIONAL
                 [] lightInput.lightType = "spot" -> LIGHT_SPOT
                 [] OTHER -> LIGHT_POINT,
               hasShadow, FALSE, 1000, 0, 0, 500)

\* C26 as stated: after the shadow map of the frame is settled the hash of the
\* light is the hash of a light whose shadow flag tells whether the light has a
\* shadow map in the frame.
C26_HashFollowsShadow ==
    lpc \in {"mapped", "cooked", "done"} =>
        RecalculatePipelineStateHash(ProcessedLight(hasShadow_))
            = RecalculatePipelineStateHash(ProcessedLight(shadowMap_ # NoShadowMap))

\* What holds of the code: the hash is that of an unshadowed light when
\* FinalizeShadowMap found no shadow caster, and that of a shadowed light whenever
\* a shadow map was requested for the light, the failed allocation included.
ShadowFlagInHash ==
    lpc \in {"mapped", "cooked", "done"} =>
        /\ (shadowMap_ # NoShadowMap) => hasShadow_
        /\ (hasShadow_ /\ shadowMap_ = NoShadowMap) <=> allocationFailed
        /\ RecalculatePipelineStateHash(ProcessedLight(TRUE))
                # RecalculatePipelineStateHash(ProcessedLight(FALSE))

\* ---------------------------------------------------------------------------
\* The pipeline state hash of two states of a light.
\* ---------------------------------------------------------------------------

notHash ==
    <<earlierVars, shadowCamera_, sceneZRange_, stageVars, lightingVars, processVars,
      bufferVars, splitVars, geometryVars, addBatchVars, cameraVars, colorVars, textureVars, penaltyVars, focusVars>>

\* States of a light: specular intensity 0 or 1, normal offset 0 or 0.5, constant
\* bias 0, 0.5 or 1.5, slope scaled bias 0.5 or 2.
LightStates ==
    { LightState(lightType, hasShadow, shapeTexture, specularIntensity, normalOffset,
                 constantBias, slopeScaledBias) :
        lightType \in {LIGHT_DIRECTIONAL, LIGHT_SPOT, LIGHT_POINT}, hasShadow \in BOOLEAN,
        shapeTexture \in BOOLEAN, specularIntensity \in {0, 1000}, normalOffset \in {0, 500},
        constantBias \in {0, 500, 1500}, slopeScaledBias \in {500, 2000} }

HashedFields ==
    {"lightType", "hasShadow", "shapeTexture", "specularIntensity", "normalOffset",
     "constantBias", "slopeScaledBias"}

\* The fields in which two states of a light differ.
Difference(a, b) == { field \in HashedFields : a[field] # b[field] }

\* GetPipelineStateHash of both states: the hashes are recalculated.
RecalculateHashes ==
    /\ pipelineStateHashes = <<>>
    /\ pipelineStateHashes' = <<RecalculatePipelineStateHash(lightStates[1]),
                                RecalculatePipelineStateHash(lightStates[2])>>
    /\ UNCHANGED <<notHash, lightStates>>

HashInit ==
    /\ EarlierIdle
    /\ ShadowCameraIdle
    /\ SceneZRangeIdle
    /\ StageIdle
    /\ RestIdleExcept("hash")
    /\ lightStates \in LightStates \X LightStates
    /\ Cardinality(Difference(lightStates[1], lightStates[2])) = 1
    /\ pipelineStateHashes = <<>>

HashNext == RecalculateHashes

SpecHash == HashInit /\ [][HashNext]_vars

\* C27 as stated: two states of a light that differ in one of light type, shadow
\* flag, shape texture, specular intensity and bias parameters have different
\* pipeline state hashes.
C27_ChangeChangesHash ==
    pipelineStateHashes # <<>> => pipelineStateHashes[1] # pipelineStateHashes[2]

\* What holds of the code: the hashes differ when the states differ in the light
\* type, in a flag, in whether specular or normal offset is enabled, or in the whole
\* part of a bias.
WholeChangeChangesHash ==
    (/\ pipelineStateHashes # <<>>
     /\ \/ Difference(lightStates[1], lightStates[2]) \cap {"constantBias", "slopeScaledBias"} = {}
        \/ lightStates[1].constantBias \div Thousand # lightStates[2].constantBias \div Thousand
        \/ lightStates[1].slopeScaledBias \div Thousand
                # lightStates[2].slopeScaledBias \div Thousand)
        => pipelineStateHashes[1] # pipelineStateHashes[2]

\* ---------------------------------------------------------------------------
\* Frame isolation of the scene passes (SpecPass).
\* ---------------------------------------------------------------------------

\* Two sequences hold the same elements the same number of times.
Permutation(a, b) ==
    /\ Len(a) = Len(b)
    /\ \A i \in 1 .. Len(a) : Count(a[i], a) = Count(a[i], b)

\* The base batches of the drawable in the list.
BaseBatchesOf(batches, d) ==
    Cardinality({ i \in 1 .. Len(batches) : batches[i].drawable_ = d })

\* The batch is a slot not filled yet, or was made from the drawable as it is in
\* this frame.
OfThisFrame(batch) ==
    batch = DefaultBatch \/ batch.material_ = shape[batch.drawable_].material

BatchDistance(batch) == drawableInput[batch.drawable_].distance

\* BaseSceneBatchSortedBackToFront::operator <: the farther batch comes first.
SortedBackToFront(lhs, rhs) == BatchDistance(lhs) > BatchDistance(rhs)

\* ea::sort with that order; batches at the same distance keep their order.
RECURSIVE InsertBackToFront(_, _)
InsertBackToFront(sorted, batch) ==
    IF sorted = <<>> THEN <<batch>>
    ELSE IF SortedBackToFront(batch, Head(sorted)) THEN <<batch>> \o sorted
    ELSE <<Head(sorted)>> \o InsertBackToFront(Tail(sorted), batch)

RECURSIVE SortBackToFront(_)
SortBackToFront(batches) ==
    IF batches = <<>> THEN <<>>
    ELSE InsertBackToFront(SortBackToFront(SubSeq(batches, 1, Len(batches) - 1)),
                           batches[Len(batches)])

\* Mutant: the light batches are not copied.
AlphaBatches_WithoutLightBatches == unlitBaseBatches_ \o litBaseBatches_

\* The batches copied to sortedBatches_ before the sort: unlit base, lit base, light.
AlphaBatches == unlitBaseBatches_ \o litBaseBatches_ \o AllLightBatches

\* AlphaForwardLightingScenePass::SortSceneBatches
AlphaSortSceneBatches ==
    /\ pc = "collected"
    /\ sortedBatches_' = SortBackToFront(AlphaBatches)
    /\ pc' = "sorted"
    /\ UNCHANGED <<notForward, createCalls, sceneVars, unlitBatches_, litBatches_,
                   unlitBaseBatches_, litBaseBatches_, lightBatches_,
                   unlitBaseBatchesDirty_, litBaseBatchesDirty_, lightBatchesDirty_,
                   unlitBasePipelineStateCache_, litBasePipelineStateCache_,
                   lightPipelineStateCache_, frame, working, taken, cursor, creating>>

\* The drawables of the translucent pass at distances 1 to 3.
AlphaInit ==
    /\ CacheIdle
    /\ createCalls = NoCreateCalls
    /\ PassIdle
    /\ LightIdle
    /\ LaterIdle
    /\ keyBatches = <<>>
    /\ drawableInput \in [Objects -> { DrawableInput(FALSE, 0, distance, "lit") :
                                          distance \in 1 .. 3 }]
    /\ frustumDrawables = <<>>
    /\ casterCandidates = [task \in LightTasks |-> <<>>]
    /\ needAmbient_ = FALSE
    /\ isDrawableUpdated_ = [d \in Objects |-> FALSE]
    /\ geometryFlags_ = [d \in Objects |-> {}]
    /\ visibleGeometries_ = EmptyPerThread
    /\ visibleLightsTemp_ = EmptyPerThread
    /\ visibleLights_ = <<>>
    /\ geometryBatches_ = EmptyPerThread
    /\ queuedDrawableUpdates_ = EmptyPerThread
    /\ threadedGeometryUpdates_ = EmptyPerThread
    /\ updateBatchesCalls = [d \in Objects |-> 0]
    /\ visited = {}
    /\ requested = {}
    /\ dpc = "idle"
    /\ dwork = [t \in Threads |-> NoWork]
    /\ dtaken = {}
    /\ shape = [d \in Drawables |-> BaseShape]
    /\ lightHash = [l \in Lights |-> l]
    /\ kind = "forward"
    /\ litGeometries \in SUBSET Drawables
    /\ pixelLights \in [Drawables -> {<<>>, <<1>>, <<1, 2>>}]
    /\ \A d \in Drawables : d \notin litGeometries => pixelLights[d] = <<>>
    /\ mainLightIndex \in {NoLightIndex, 1}
    /\ shadowCasters = [s \in Splits |-> <<>>]
    /\ casterSettings = [d \in Drawables |-> DefaultCaster]
    /\ lightMask = 1

AlphaNext ==
    \/ BeginFrame
    \/ AddSourceBatches
    \/ InvalidatePipelineStateCache
    \/ \E d \in Drawables, material \in {1, 2} : SetMaterial(d, material)
    \/ \E t \in Threads, index \in 1 .. NumDrawables : TakeIndex(t, index)
    \/ CollectUnlitBegin
    \/ \E t \in Threads : UnlitLambda(t)
    \/ UnlitJoin
    \/ ResolveBegin
    \/ UnlitResolve
    \/ CollectLitBegin
    \/ \E t \in Threads : LitLambda(t)
    \/ LitJoin
    \/ LitBaseResolve
    \/ LitBaseResolved
    \/ LightResolve
    \/ CollectSceneBatchesEnd
    \/ AlphaSortSceneBatches

SpecAlpha == AlphaInit /\ [][AlphaNext]_vars

\* C29: the list SortSceneBatches of the translucent pass produces holds every
\* unlit base, lit base and light batch of the frame exactly once, its length being
\* the sum of the three lists, and no batch in it is nearer than a batch after it,
\* whatever the types of the batches.
C29_OneListBackToFront ==
    (kind = "forward" /\ pc = "sorted") =>
        /\ Len(sortedBatches_)
                = Len(unlitBaseBatches_) + Len(litBaseBatches_) + Len(AllLightBatches)
        /\ \A i \in 1 .. Len(sortedBatches_) :
                Count(sortedBatches_[i], sortedBatches_)
                    = Count(sortedBatches_[i], unlitBaseBatches_)
                        + Count(sortedBatches_[i], litBaseBatches_)
                        + Count(sortedBatches_[i], AllLightBatches)
        /\ \A i \in 1 .. Len(sortedBatches_) : \A j \in (i + 1) .. Len(sortedBatches_) :
                drawableInput[sortedBatches_[i].drawable_].distance
                    >= drawableInput[sortedBatches_[j].drawable_].distance

\* The far drawable is unlit, the near one is lit by two lights: the unlit base
\* batch comes first, the light batches of the near drawable are in the list.
C29_Witness ==
    /\ kind = "forward"
    /\ pc = "sorted"
    /\ Len(unlitBaseBatches_) = 1
    /\ Len(litBaseBatches_) = 1
    /\ Len(AllLightBatches) >= 1
    /\ Len(sortedBatches_) >= 3
    /\ sortedBatches_[1] = unlitBaseBatches_[1]
    /\ drawableInput[unlitBaseBatches_[1].drawable_].distance
            > drawableInput[litBaseBatches_[1].drawable_].distance

(***************************************************************************)
(* ClearOutputRect when the output buffers cannot be set.                  *)
(***************************************************************************)

\* C30: when SetRenderTargetsRect inside ClearOutputRect rejects the output buffers,
\* no clear command is issued to the graphics device, so that the render targets
\* bound earlier are not cleared.
C30_FailedSetupIssuesNoClear ==
    [][(bufferVars' # bufferVars /\ Rejected(renderCall'))
        => clearCommands' = clearCommands]_vars

\* Every ClearOutputRect issues one clear command, and the command clears what the
\* device has bound after the attempt to set the output buffers.
ClearHitsBoundTargets ==
    [][clearCommands' # clearCommands
        => clearCommands' = Append(clearCommands, graphics_')]_vars

(***************************************************************************)
(* DrawableProcessor::UpdateGeometries over the two geometry update lists. *)
(***************************************************************************)

notGeometry ==
    <<earlierVars, shadowCamera_, sceneZRange_, stageVars, lightingVars, processVars, bufferVars,
      splitVars, hashVars, addBatchVars, cameraVars, colorVars, textureVars, penaltyVars, focusVars>>

UpdateGeometryTypes == {"UPDATE_MAIN_THREAD", "UPDATE_WORKER_THREAD"}

\* A call of Drawable::UpdateGeometry: the drawable, the thread, and the part of
\* UpdateGeometries that made it.
UpdateGeometryCall(d, t, part) == <<d, t, part>>

\* The drawables in one of the per-thread lists.
QueuedIn(perThread) == Elements(FlatElements(perThread))

QueuedForGeometryUpdate ==
    QueuedIn(geometryUpdates_.threaded) \cup QueuedIn(geometryUpdates_.nonThreaded)

\* DrawableProcessor::QueueDrawableGeometryUpdate on thread t; isDrawableUpdated_ lets
\* a drawable through once in a frame.
QueueDrawableGeometryUpdate(t, d) ==
    /\ gpc = "queueing"
    /\ d \notin QueuedForGeometryUpdate
    /\ geometryUpdates_' =
            IF updateGeometryType[d] = "UPDATE_MAIN_THREAD"
            THEN [geometryUpdates_ EXCEPT !.nonThreaded = PushBack(@, t, d)]
            ELSE [geometryUpdates_ EXCEPT !.threaded = PushBack(@, t, d)]
    /\ UNCHANGED <<notGeometry, updateGeometryType, gpc, gtaken, gwork, gcursor,
                   updateGeometryCalls>>

\* The drawable changes its update type between queueing and UpdateGeometries.
SetUpdateGeometryType(d, type) ==
    /\ gpc = "queueing"
    /\ updateGeometryType[d] # type
    /\ updateGeometryType' = [updateGeometryType EXCEPT ![d] = type]
    /\ UNCHANGED <<notGeometry, geometryUpdates_, gpc, gtaken, gwork, gcursor,
                   updateGeometryCalls>>

\* UpdateGeometries is called: the parallel loop over threadedGeometryUpdates_ starts.
UpdateGeometries ==
    /\ gpc = "queueing"
    /\ gpc' = "parallel"
    /\ gtaken' = {}
    /\ UNCHANGED <<notGeometry, updateGeometryType, geometryUpdates_, gwork, gcursor,
                   updateGeometryCalls>>

\* A thread of the work queue takes an element of threadedGeometryUpdates_.
TakeThreadedUpdate(t, index) ==
    /\ gpc = "parallel"
    /\ gwork[t] = 0
    /\ index \in (1 .. Len(Flat(geometryUpdates_.threaded))) \ gtaken
    /\ gtaken' = gtaken \cup {index}
    /\ gwork' = [gwork EXCEPT ![t] = FlatElements(geometryUpdates_.threaded)[index]]
    /\ UNCHANGED <<notGeometry, updateGeometryType, geometryUpdates_, gpc, gcursor,
                   updateGeometryCalls>>

\* Mutant: the body of the parallel loop updates every drawable.
UpdatedInLoop_Always(d) == TRUE

\* The test in the body of the parallel loop.
UpdatedInLoop(d) == updateGeometryType[d] # "UPDATE_MAIN_THREAD"

\* The body of the parallel loop on thread t.
ThreadedUpdate(t) ==
    /\ gpc = "parallel"
    /\ gwork[t] # 0
    /\ IF UpdatedInLoop(gwork[t])
       THEN /\ updateGeometryCalls' =
                    Append(updateGeometryCalls, UpdateGeometryCall(gwork[t], t, "parallel"))
            /\ UNCHANGED geometryUpdates_
       ELSE /\ geometryUpdates_' =
                    [geometryUpdates_ EXCEPT !.nonThreaded = PushBack(@, t, gwork[t])]
            /\ UNCHANGED updateGeometryCalls
    /\ gwork' = [gwork EXCEPT ![t] = 0]
    /\ UNCHANGED <<notGeometry, updateGeometryType, gpc, gtaken, gcursor>>

\* ForEachParallel returns when every element was worked on.
UpdateGeometriesJoin ==
    /\ gpc = "parallel"
    /\ gtaken = 1 .. Len(Flat(geometryUpdates_.threaded))
    /\ \A t \in Threads : gwork[t] = 0
    /\ gpc' = "main"
    /\ gcursor' = 1
    /\ UNCHANGED <<notGeometry, updateGeometryType, geometryUpdates_, gtaken, gwork,
                   updateGeometryCalls>>

\* The loop over nonThreadedGeometryUpdates_ in the main thread.
MainThreadUpdate ==
    /\ gpc = "main"
    /\ gcursor <= Len(Flat(geometryUpdates_.nonThreaded))
    /\ updateGeometryCalls' =
            Append(updateGeometryCalls,
                   UpdateGeometryCall(FlatElements(geometryUpdates_.nonThreaded)[gcursor],
                                      MainThread, "main"))
    /\ gcursor' = gcursor + 1
    /\ UNCHANGED <<notGeometry, updateGeometryType, geometryUpdates_, gpc, gtaken, gwork>>

UpdateGeometriesReturn ==
    /\ gpc = "main"
    /\ gcursor > Len(Flat(geometryUpdates_.nonThreaded))
    /\ gpc' = "done"
    /\ UNCHANGED <<notGeometry, updateGeometryType, geometryUpdates_, gtaken, gwork, gcursor,
                   updateGeometryCalls>>

\* DrawableProcessor::OnUpdateBegin of the next frame clears both lists.
ClearGeometryUpdates ==
    /\ gpc = "done"
    /\ geometryUpdates_' = [threaded |-> EmptyPerThread, nonThreaded |-> EmptyPerThread]
    /\ updateGeometryCalls' = <<>>
    /\ gtaken' = {}
    /\ gcursor' = 1
    /\ gpc' = "queueing"
    /\ UNCHANGED <<notGeometry, updateGeometryType, gwork>>

GeometryInit ==
    /\ EarlierIdle
    /\ ShadowCameraIdle
    /\ SceneZRangeIdle
    /\ StageIdle
    /\ RestIdleExcept("geometry")
    /\ updateGeometryType \in [Objects -> UpdateGeometryTypes]
    /\ geometryUpdates_ = [threaded |-> EmptyPerThread, nonThreaded |-> EmptyPerThread]
    /\ gpc = "queueing"
    /\ gtaken = {}
    /\ gwork = [t \in Threads |-> 0]
    /\ gcursor = 1
    /\ updateGeometryCalls = <<>>

GeometryNext ==
    \/ \E t \in Threads, d \in Objects : QueueDrawableGeometryUpdate(t, d)
    \/ \E d \in Objects, type \in UpdateGeometryTypes : SetUpdateGeometryType(d, type)
    \/ UpdateGeometries
    \/ \E t \in Threads, index \in 1 .. NumObjects : TakeThreadedUpdate(t, index)
    \/ \E t \in Threads : ThreadedUpdate(t)
    \/ UpdateGeometriesJoin
    \/ MainThreadUpdate
    \/ UpdateGeometriesReturn
    \/ ClearGeometryUpdates

SpecGeometry == GeometryInit /\ [][GeometryNext]_vars

UpdateGeometryCallsOf(d) ==
    { i \in 1 .. Len(updateGeometryCalls) : updateGeometryCalls[i][1] = d }

\* C31: UpdateGeometries calls UpdateGeometry exactly once for every drawable queued
\* for a geometry update in the frame, and a drawable whose update type is
\* UPDATE_MAIN_THREAD at the time of the update is updated in the main thread after
\* the parallel loop joined, also when it was found in the threaded list.
C31_UpdatedOnceOffWorkers ==
    /\ \A d \in Objects : Cardinality(UpdateGeometryCallsOf(d)) <= 1
    /\ gpc = "done" =>
            \A d \in Objects :
                Cardinality(UpdateGeometryCallsOf(d))
                    = IF d \in QueuedForGeometryUpdate THEN 1 ELSE 0
    /\ \A i \in 1 .. Len(updateGeometryCalls) :
            updateGeometryType[updateGeometryCalls[i][1]] = "UPDATE_MAIN_THREAD"
                => /\ updateGeometryCalls[i][2] = MainThread
                   /\ updateGeometryCalls[i][3] = "main"

\* UpdateGeometries returned; a drawable of the threaded list had become
\* UPDATE_MAIN_THREAD and was updated in the main thread after the loop, and
\* another drawable was updated by the worker thread.
C31_Witness ==
    /\ gpc = "done"
    /\ \E d \in QueuedIn(geometryUpdates_.threaded) :
            /\ updateGeometryType[d] = "UPDATE_MAIN_THREAD"
            /\ \E i \in UpdateGeometryCallsOf(d) : updateGeometryCalls[i][3] = "main"
    /\ \E i \in 1 .. Len(updateGeometryCalls) :
            updateGeometryCalls[i][2] # MainThread /\ updateGeometryCalls[i][3] = "parallel"

(***************************************************************************)
(* The render flags of the geometries over the techniques and frames.      *)
(***************************************************************************)

FlagInit ==
    /\ CacheIdle
    /\ createCalls = NoCreateCalls
    /\ SceneIdle
    /\ PassIdle
    /\ LightIdle
    /\ ShadowCameraIdle
    /\ SceneZRangeIdle
    /\ RestIdle
    /\ keyBatches = <<>>
    /\ drawableInput \in [Objects -> FlagInputs]
    /\ frustumDrawables \in { Ascending(inside) : inside \in SUBSET Objects }
    /\ casterCandidates = [task \in LightTasks |-> <<>>]
    /\ needAmbient_ \in BOOLEAN
    /\ brightLights = {}
    /\ boundingBox = [d \in Objects |-> BoundingBox(2, 1, 1)]
    /\ geometryZRanges_ = [d \in Objects |-> NoRange]
    /\ sceneZRangeTemp_ = [t \in Threads |-> NoRange]
    /\ lightProcessors_ = <<>>
    /\ lightProcessorCache_ = [light \in Objects |-> NoProcessor]
    /\ isDrawableUpdated_ = [d \in Objects |-> FALSE]
    /\ geometryFlags_ = [d \in Objects |-> {}]
    /\ visibleGeometries_ = EmptyPerThread
    /\ visibleLightsTemp_ = EmptyPerThread
    /\ visibleLights_ = <<>>
    /\ geometryBatches_ = EmptyPerThread
    /\ queuedDrawableUpdates_ = EmptyPerThread
    /\ threadedGeometryUpdates_ = EmptyPerThread
    /\ updateBatchesCalls = [d \in Objects |-> 0]
    /\ visited = {} /\ requested = {}
    /\ dpc = "idle"
    /\ dwork = [t \in Threads |-> NoWork]
    /\ dtaken = {}

FlagNext ==
    \/ \E moved \in [Objects -> FlagInputs] : OnUpdateBegin(moved)
    \/ \E t \in Threads, index \in 1 .. NumObjects : TakeElement(t, index)
    \/ \E t \in Threads : ProcessVisibleDrawable(t)
    \/ ProcessVisibleDrawablesEnd
    \/ \E t \in Threads : LightUpdateEnd(t)
    \/ ProcessLightsEnd
    \/ ProcessShadowCastersEnd

SpecFlags == FlagInit /\ [][FlagNext]_vars

\* The drawables ProcessVisibleDrawable took as geometry in the frame.
ProcessedAsGeometry ==
    { d \in Elements(frustumDrawables) : ~drawableInput[d].isLight /\ ~TooFar(d) }

\* C32: after ProcessVisibleDrawables, for every drawable ForwardLit implies Lit and
\* Lit implies Visible; Visible is set exactly for the drawables stored in the
\* visible geometries of the frame; and the flags of a drawable that was not
\* processed as visible geometry in the frame are 0.
C32_RenderFlagsConsistent ==
    AfterVisibleDrawables =>
        \A d \in Objects :
            /\ "ForwardLit" \in geometryFlags_[d] => "Lit" \in geometryFlags_[d]
            /\ "Lit" \in geometryFlags_[d] => "Visible" \in geometryFlags_[d]
            /\ "Visible" \in geometryFlags_[d]
                    <=> d \in Elements(FlatElements(visibleGeometries_))
            /\ d \notin ProcessedAsGeometry => geometryFlags_[d] = {}

\* After ProcessVisibleDrawables a geometry with an unlit technique in a pass that
\* needs ambient is Visible and Lit only, and a geometry of the frustum that is
\* beyond its draw distance has no flag.
C32_Witness ==
    /\ AfterVisibleDrawables
    /\ \E d \in Objects : geometryFlags_[d] = {"Visible", "Lit"}
    /\ \E d \in visited : TooFar(d) /\ geometryFlags_[d] = {}

(***************************************************************************)
(* DrawableProcessorPass::AddBatch in the batch loop of one drawable.      *)
(***************************************************************************)

notAddBatch ==
    <<earlierVars, shadowCamera_, sceneZRange_, stageVars, lightingVars, processVars, bufferVars,
      splitVars, hashVars, geometryVars, cameraVars, colorVars, textureVars, penaltyVars, focusVars>>

\* Technique::GetPass returned nullptr; FindTechnique returned nullptr.
NoPass == 0
NoTechnique == {NoPass}

\* Technique::GetPass: the pass of the index if the technique has it.
GetPass(technique, passIndex) == IF passIndex \in technique THEN passIndex ELSE NoPass

\* DrawableProcessorPass with its three pass indices.
DrawableProcessorPass(needAmbient, unlitBasePassIndex, litBasePassIndex, lightPassIndex) ==
    [needAmbient_ |-> needAmbient, unlitBasePassIndex_ |-> unlitBasePassIndex,
     litBasePassIndex_ |-> litBasePassIndex, lightPassIndex_ |-> lightPassIndex]

\* Mutant: the light pass is reported without looking at the unlit base pass.
PassAddBatch_LitWithoutBase(pass, sourceBatchIndex, technique) ==
    LET unlitBasePass == GetPass(technique, pass.unlitBasePassIndex_)
        lightPass == GetPass(technique, pass.lightPassIndex_)
        litBasePass ==
            IF lightPass # NoPass THEN GetPass(technique, pass.litBasePassIndex_) ELSE NoPass
    IN [result |-> [added_ |-> unlitBasePass # NoPass, litAdded_ |-> lightPass # NoPass],
        batches |->
            IF unlitBasePass = NoPass THEN <<>>
            ELSE << [sourceBatchIndex |-> sourceBatchIndex, unlitBasePass |-> unlitBasePass,
                     litBasePass |-> litBasePass, lightPass |-> lightPass] >>]

\* DrawableProcessorPass::AddBatch: the result, and what is pushed to geometryBatches_.
PassAddBatch(pass, sourceBatchIndex, technique) ==
    LET unlitBasePass == GetPass(technique, pass.unlitBasePassIndex_)
        lightPass == GetPass(technique, pass.lightPassIndex_)
        litBasePass ==
            IF lightPass # NoPass THEN GetPass(technique, pass.litBasePassIndex_) ELSE NoPass
    IN IF unlitBasePass = NoPass
       THEN [result |-> [added_ |-> FALSE, litAdded_ |-> FALSE], batches |-> <<>>]
       ELSE [result |-> [added_ |-> TRUE, litAdded_ |-> lightPass # NoPass],
             batches |->
                << [sourceBatchIndex |-> sourceBatchIndex, unlitBasePass |-> unlitBasePass,
                    litBasePass |-> litBasePass, lightPass |-> lightPass] >>]

BatchLoopDone == batchLoop.i > Len(sourceTechniques)

\* The source batch has no technique: continue.
SkipSourceBatch ==
    /\ ~BatchLoopDone
    /\ drawableFlag = {}
    /\ sourceTechniques[batchLoop.i] = NoTechnique
    /\ batchLoop' = [batchLoop EXCEPT !.i = @ + 1, !.p = 1]
    /\ UNCHANGED <<notAddBatch, sourceTechniques, passes_, passBatches, addResults, drawableFlag>>

\* One pass of the loop over passes_ for the current source batch.
AddBatchToPass ==
    /\ ~BatchLoopDone
    /\ drawableFlag = {}
    /\ sourceTechniques[batchLoop.i] # NoTechnique
    /\ LET pass == passes_[batchLoop.p]
           added == PassAddBatch(pass, batchLoop.i, sourceTechniques[batchLoop.i])
           result == added.result
           last == batchLoop.p = Len(passes_)
       IN /\ passBatches' = [passBatches EXCEPT ![batchLoop.p] = @ \o added.batches]
          /\ addResults' =
                Append(addResults, [i |-> batchLoop.i, p |-> batchLoop.p, result |-> result])
          /\ batchLoop' =
                [i |-> IF last THEN batchLoop.i + 1 ELSE batchLoop.i,
                 p |-> IF last THEN 1 ELSE batchLoop.p + 1,
                 isForwardLit |-> batchLoop.isForwardLit \/ result.litAdded_,
                 needAmbient |->
                    \/ batchLoop.needAmbient
                    \/ result.litAdded_
                    \/ (result.added_ /\ pass.needAmbient_)]
    /\ UNCHANGED <<notAddBatch, sourceTechniques, passes_, drawableFlag>>

\* "Update flags" of ProcessVisibleDrawable after the loop.
UpdateFlags ==
    /\ BatchLoopDone
    /\ drawableFlag = {}
    /\ drawableFlag' =
            {"Visible"} \cup (IF batchLoop.needAmbient THEN {"Lit"} ELSE {})
                \cup (IF batchLoop.isForwardLit THEN {"ForwardLit"} ELSE {})
    /\ UNCHANGED <<notAddBatch, sourceTechniques, passes_, passBatches, addResults, batchLoop>>

\* The techniques: any set of the technique passes 1 to 4, or none.
Techniques == (SUBSET (1 .. NumTechniquePasses)) \cup {NoTechnique}

\* A forward pass alone, or followed by a pass with a base pass of its own.
PassLists ==
    { <<DrawableProcessorPass(needAmbient, 1, 2, 3)>> : needAmbient \in BOOLEAN }
    \cup { <<DrawableProcessorPass(needAmbient, 1, 2, 3), DrawableProcessorPass(FALSE, 4, 2, 3)>> :
            needAmbient \in BOOLEAN }

AddBatchInit ==
    /\ EarlierIdle
    /\ ShadowCameraIdle
    /\ SceneZRangeIdle
    /\ StageIdle
    /\ RestIdleExcept("addBatch")
    /\ sourceTechniques \in SeqsUpTo(Techniques, MaxSourceBatches) \ {<<>>}
    /\ passes_ \in PassLists
    /\ passBatches = [p \in 1 .. Len(passes_) |-> <<>>]
    /\ addResults = <<>>
    /\ batchLoop = [i |-> 1, p |-> 1, isForwardLit |-> FALSE, needAmbient |-> FALSE]
    /\ drawableFlag = {}

AddBatchNext ==
    \/ SkipSourceBatch
    \/ AddBatchToPass
    \/ UpdateFlags

SpecAddBatch == AddBatchInit /\ [][AddBatchNext]_vars

\* The batches of the source batch in geometryBatches_ of the pass.
StoredBatches(p, i) ==
    { k \in 1 .. Len(passBatches[p]) : passBatches[p][k].sourceBatchIndex = i }

\* C33: AddBatch adds a source batch to the pass exactly when the technique has the
\* unlit base pass of the pass; it reports litAdded only when the batch was added
\* and the technique has the light pass; a stored batch has a lit base pass only
\* with a light pass; and a drawable is flagged ForwardLit only if one of its source
\* batches was added with a light pass.
C33_AddBatch ==
    /\ \A k \in 1 .. Len(addResults) :
            LET call == addResults[k]
                technique == sourceTechniques[call.i]
                pass == passes_[call.p]
            IN /\ call.result.added_ <=> pass.unlitBasePassIndex_ \in technique
               /\ Cardinality(StoredBatches(call.p, call.i))
                    = IF pass.unlitBasePassIndex_ \in technique THEN 1 ELSE 0
               /\ call.result.litAdded_
                    => call.result.added_ /\ pass.lightPassIndex_ \in technique
    /\ \A p \in 1 .. Len(passBatches) : \A k \in 1 .. Len(passBatches[p]) :
            passBatches[p][k].litBasePass # NoPass => passBatches[p][k].lightPass # NoPass
    /\ "ForwardLit" \in drawableFlag =>
            \E p \in 1 .. Len(passBatches) : \E k \in 1 .. Len(passBatches[p]) :
                passBatches[p][k].lightPass # NoPass

\* The first source batch has lit base pass and light pass but no unlit base pass of
\* either pass and was not added; the second one was added to the second pass with
\* its light pass, and the drawable is flagged ForwardLit.
C33_Witness ==
    /\ Len(sourceTechniques) = 2
    /\ sourceTechniques[1] = {2, 3}
    /\ sourceTechniques[2] = {3, 4}
    /\ Len(passes_) = 2
    /\ passBatches[1] = <<>>
    /\ Len(passBatches[2]) = 1
    /\ drawableFlag = {"Visible", "Lit", "ForwardLit"}

(***************************************************************************)
(* CameraProcessor over the notifications of the render pipeline.          *)
(***************************************************************************)

notCamera ==
    <<earlierVars, shadowCamera_, sceneZRange_, stageVars, lightingVars, processVars, bufferVars,
      splitVars, hashVars, geometryVars, addBatchVars, colorVars, textureVars, penaltyVars, focusVars>>

\* CameraProcessor::OnUpdateBegin for a frame with or without render target.
CameraOnUpdateBegin(renderTarget) ==
    /\ Len(notifications) < MaxNotifications
    /\ notifications' = Append(notifications, "OnUpdateBegin")
    /\ flipCamera_' = (openGL /\ renderTarget)
    /\ flipVertical_' = IF flipCamera_' THEN ~flipVertical_ ELSE flipVertical_
    /\ UNCHANGED <<notCamera, openGL, flipVerticalBefore>>

\* CameraProcessor::OnRenderEnd.
CameraOnRenderEnd ==
    /\ Len(notifications) < MaxNotifications
    /\ notifications' = Append(notifications, "OnRenderEnd")
    /\ flipVertical_' = IF flipCamera_ THEN ~flipVertical_ ELSE flipVertical_
    /\ UNCHANGED <<notCamera, openGL, flipCamera_, flipVerticalBefore>>

CameraInit ==
    /\ EarlierIdle
    /\ ShadowCameraIdle
    /\ SceneZRangeIdle
    /\ StageIdle
    /\ RestIdleExcept("camera")
    /\ openGL \in BOOLEAN
    /\ flipVertical_ \in BOOLEAN
    /\ flipCamera_ = FALSE
    /\ flipVerticalBefore = flipVertical_
    /\ notifications = <<>>

CameraNext ==
    \/ \E renderTarget \in BOOLEAN : CameraOnUpdateBegin(renderTarget)
    \/ CameraOnRenderEnd

SpecCamera == CameraInit /\ [][CameraNext]_vars

AfterOnRenderEnd ==
    notifications # <<>> /\ notifications[Len(notifications)] = "OnRenderEnd"

\* C34: for any sequence of OnUpdateBegin and OnRenderEnd notifications, after each
\* OnRenderEnd the flip-vertical setting of the camera is the one it had before the
\* processor first flipped it, also when an update is not followed by a render
\* before the next update begins.
C34_FlipUndone == AfterOnRenderEnd => flipVertical_ = flipVerticalBefore

\* Every OnUpdateBegin is followed by one OnRenderEnd before the next OnUpdateBegin.
Alternating ==
    \A i \in 1 .. Len(notifications) :
        notifications[i] = IF i % 2 = 1 THEN "OnUpdateBegin" ELSE "OnRenderEnd"

\* When updates and renders alternate, the flip is undone after every OnRenderEnd.
AlternatingFlipUndone == (Alternating /\ AfterOnRenderEnd) => flipVertical_ = flipVerticalBefore

(***************************************************************************)
(* RenderBufferManager: the color buffers of a frame.                      *)
(***************************************************************************)

notColor ==
    <<earlierVars, shadowCamera_, sceneZRange_, stageVars, lightingVars, processVars,
      bufferVars, splitVars, hashVars, geometryVars, addBatchVars, cameraVars, textureVars, penaltyVars, focusVars>>

\* nullptr, and viewportColorBuffer_.
NullBuffer == "null"
ViewportColorBuffer == "viewportColor"

\* The flags of ViewportRenderBufferFlag that decide about the color buffers.
ColorFlags ==
    {"IsReadableColor", "IsReadableDepth", "SupportSimultaneousReadAndWrite",
     "UsableWithMultipleRenderTargets"}

\* needSubstitutePrimaryBuffer of OnRenderBegin; isOutputMatching is the match of
\* format, sRGB and multisampling.
NeedSubstitutePrimaryBuffer(flags, isOutputMatching, isSimpleTextureOutput) ==
    \/ ~isOutputMatching
    \/ /\ \/ "IsReadableColor" \in flags
          \/ "IsReadableDepth" \in flags
          \/ "SupportSimultaneousReadAndWrite" \in flags
       /\ ~isSimpleTextureOutput
    \/ "UsableWithMultipleRenderTargets" \in flags /\ ~isSimpleTextureOutput

\* Mutant: the secondary buffer is allocated for a readable color buffer only.
NeedSecondaryBuffer_ForReadableColor(flags) == "IsReadableColor" \in flags

\* needSecondaryBuffer of OnRenderBegin.
NeedSecondaryBuffer(flags) == "SupportSimultaneousReadAndWrite" \in flags

\* RenderBufferManager::OnRenderBegin; paramsChanged: the viewport parameters differ
\* from those of the previous frame.
OnRenderBegin(paramsChanged, isOutputMatching, isSimpleTextureOutput) ==
    /\ ~rendering
    /\ LET needSecondaryBuffer == NeedSecondaryBuffer(viewportFlags_)
           needSubstitutePrimaryBuffer ==
                NeedSubstitutePrimaryBuffer(viewportFlags_, isOutputMatching, isSimpleTextureOutput)
           reset == IF paramsChanged THEN <<NullBuffer, NullBuffer>>
                    ELSE substituteRenderBuffers_
           allocated ==
                << IF needSubstitutePrimaryBuffer /\ reset[1] = NullBuffer
                   THEN "substitute0" ELSE reset[1],
                   IF needSecondaryBuffer /\ reset[2] = NullBuffer
                   THEN "substitute1" ELSE reset[2] >>
       IN /\ substituteRenderBuffers_' = allocated
          /\ writeableColorBuffer_' =
                IF needSubstitutePrimaryBuffer THEN allocated[1] ELSE ViewportColorBuffer
          /\ readableColorBuffer_' = IF needSecondaryBuffer THEN allocated[2] ELSE NullBuffer
    /\ rendering' = TRUE
    /\ prepareCalls' = 0
    /\ prepareErrors' = 0
    /\ copyCommands' = <<>>
    /\ UNCHANGED <<notColor, viewportFlags_, copyTexturePipelineState_>>

\* Mutant: the buffers are exchanged without the test of the flag.
PrepareForColorReadWrite_Unchecked ==
    /\ rendering
    /\ prepareCalls < MaxPrepareCalls
    /\ prepareCalls' = prepareCalls + 1
    /\ writeableColorBuffer_' = readableColorBuffer_
    /\ readableColorBuffer_' = writeableColorBuffer_
    /\ UNCHANGED prepareErrors
    /\ UNCHANGED <<notColor, viewportFlags_, substituteRenderBuffers_, copyTexturePipelineState_,
                   rendering, copyCommands>>

\* RenderBufferManager::PrepareForColorReadWrite(false) in a build without assertions.
PrepareForColorReadWrite ==
    /\ rendering
    /\ prepareCalls < MaxPrepareCalls
    /\ prepareCalls' = prepareCalls + 1
    /\ IF "SupportSimultaneousReadAndWrite" \notin viewportFlags_
       THEN /\ prepareErrors' = prepareErrors + 1
            /\ UNCHANGED <<writeableColorBuffer_, readableColorBuffer_>>
       ELSE /\ writeableColorBuffer_' = readableColorBuffer_
            /\ readableColorBuffer_' = writeableColorBuffer_
            /\ UNCHANGED prepareErrors
    /\ UNCHANGED <<notColor, viewportFlags_, substituteRenderBuffers_, copyTexturePipelineState_,
                   rendering, copyCommands>>

\* Mutant: only the primary substitute buffer is copied.
OutputNeedsCopy_PrimaryOnly == writeableColorBuffer_ = substituteRenderBuffers_[1]

\* The test of RenderBufferManager::OnRenderEnd.
OutputNeedsCopy == writeableColorBuffer_ # ViewportColorBuffer

\* RenderBufferManager::CopyTextureRegion from the texture of a substitute buffer: the
\* pipeline state after InitializeCopyTexturePipelineState (created tells whether
\* the renderer can create it), and the copy drawn.
CopyTextureRegion(source, destination, created) ==
    LET state == copyTexturePipelineState_ \/ created
    IN [copyTexturePipelineState_ |-> state,
        commands |-> IF state THEN << [source |-> source, destination |-> destination] >>
                     ELSE <<>>]

\* RenderBufferManager::OnRenderEnd.
OnRenderEnd(created) ==
    /\ rendering
    /\ rendering' = FALSE
    /\ IF OutputNeedsCopy
       THEN LET copy == CopyTextureRegion(writeableColorBuffer_, ViewportColorBuffer, created)
            IN /\ copyCommands' = copy.commands
               /\ copyTexturePipelineState_' = copy.copyTexturePipelineState_
       ELSE UNCHANGED <<copyCommands, copyTexturePipelineState_>>
    /\ UNCHANGED <<notColor, viewportFlags_, substituteRenderBuffers_, writeableColorBuffer_,
                   readableColorBuffer_, prepareCalls, prepareErrors>>

\* RenderBufferManager::OnPipelineStatesInvalidated.
OnPipelineStatesInvalidated ==
    /\ copyTexturePipelineState_
    /\ copyTexturePipelineState_' = FALSE
    /\ UNCHANGED <<notColor, viewportFlags_, substituteRenderBuffers_, writeableColorBuffer_,
                   readableColorBuffer_, rendering, prepareCalls, prepareErrors, copyCommands>>

ColorInit ==
    /\ EarlierIdle
    /\ ShadowCameraIdle
    /\ SceneZRangeIdle
    /\ StageIdle
    /\ RestIdleExcept("color")
    /\ viewportFlags_ \in SUBSET ColorFlags
    /\ substituteRenderBuffers_ = <<NullBuffer, NullBuffer>>
    /\ writeableColorBuffer_ = NullBuffer
    /\ readableColorBuffer_ = NullBuffer
    /\ copyTexturePipelineState_ = FALSE
    /\ rendering = FALSE
    /\ prepareCalls = 0
    /\ prepareErrors = 0
    /\ copyCommands = <<>>

ColorNext ==
    \/ \E paramsChanged \in BOOLEAN, isOutputMatching \in BOOLEAN,
          isSimpleTextureOutput \in BOOLEAN :
            OnRenderBegin(paramsChanged, isOutputMatching, isSimpleTextureOutput)
    \/ PrepareForColorReadWrite
    \/ \E created \in BOOLEAN : OnRenderEnd(created)
    \/ OnPipelineStatesInvalidated

SpecColor == ColorInit /\ [][ColorNext]_vars

\* C35: with SupportSimultaneousReadAndWrite set, after OnRenderBegin the readable
\* and the writeable color buffer are both non-null and different, also after any
\* number of PrepareForColorReadWrite calls, each of which exchanges the two;
\* without the flag PrepareForColorReadWrite logs an error and changes neither.
C35_ReadWriteBuffers ==
    [][/\ (rendering' /\ "SupportSimultaneousReadAndWrite" \in viewportFlags_')
            => /\ writeableColorBuffer_' # NullBuffer
               /\ readableColorBuffer_' # NullBuffer
               /\ writeableColorBuffer_' # readableColorBuffer_'
       /\ prepareCalls' = prepareCalls + 1
            => IF "SupportSimultaneousReadAndWrite" \in viewportFlags_
               THEN /\ writeableColorBuffer_' = readableColorBuffer_
                    /\ readableColorBuffer_' = writeableColorBuffer_
                    /\ prepareErrors' = prepareErrors
               ELSE /\ writeableColorBuffer_' = writeableColorBuffer_
                    /\ readableColorBuffer_' = readableColorBuffer_
                    /\ prepareErrors' = prepareErrors + 1]_vars

\* With the flag and a simple texture output the frame started with the viewport
\* color buffer as writeable buffer; two exchanges later it is that again.
C35_Witness ==
    /\ rendering
    /\ "SupportSimultaneousReadAndWrite" \in viewportFlags_
    /\ prepareCalls = 2
    /\ writeableColorBuffer_ = ViewportColorBuffer
    /\ readableColorBuffer_ = "substitute1"

notTexture ==
    <<earlierVars, shadowCamera_, sceneZRange_, stageVars, lightingVars, processVars,
      bufferVars, splitVars, hashVars, geometryVars, addBatchVars, cameraVars, colorVars, penaltyVars, focusVars>>

\* nullptr of a texture or render surface.
NullTexture == 0

\* GetRenderSurfaceFromTexture for a 2D texture: the surface of texture n is n + 10.
GetRenderSurfaceFromTexture(texture) ==
    IF texture = NullTexture THEN NullTexture ELSE texture + SurfaceOffset

\* TextureRenderBuffer::OnRenderBegin with the base class; the renderer hands out the
\* screen buffer texture, the size is that of the view.
TextureOnRenderBegin(texture, size) ==
    /\ renderedFrames < MaxRenderFrames
    /\ renderedFrames' = renderedFrames + 1
    /\ inFrame' = TRUE
    /\ bufferIsReady_' = TRUE
    /\ currentSize_' = size
    /\ currentTexture_' = texture
    /\ UNCHANGED <<notTexture, lastAccess, accessCalls, accessErrors>>

\* RenderBuffer::OnRenderEnd.
TextureOnRenderEnd ==
    /\ inFrame
    /\ inFrame' = FALSE
    /\ bufferIsReady_' = FALSE
    /\ UNCHANGED <<notTexture, currentTexture_, currentSize_, renderedFrames, lastAccess,
                   accessCalls, accessErrors>>

\* Mutant: the buffer counts as ready once it has a texture.
CheckIfBufferIsReady_WithTexture == currentTexture_ # NullTexture

\* RenderBuffer::CheckIfBufferIsReady; an error is logged when it is false.
CheckIfBufferIsReady == bufferIsReady_

\* TextureRenderBuffer::GetTexture, GetRenderSurface and GetViewportRect; the rect
\* from zero to currentSize_ is named by the size, IntRect::ZERO by ZeroRect.
Access(accessor) ==
    /\ accessCalls < MaxAccessCalls
    /\ accessCalls' = accessCalls + 1
    /\ accessErrors' = IF CheckIfBufferIsReady THEN accessErrors ELSE accessErrors + 1
    /\ lastAccess' =
            [accessor |-> accessor,
             result |->
                IF accessor = "GetTexture"
                THEN (IF CheckIfBufferIsReady THEN currentTexture_ ELSE NullTexture)
                ELSE IF accessor = "GetRenderSurface"
                THEN (IF CheckIfBufferIsReady THEN GetRenderSurfaceFromTexture(currentTexture_)
                      ELSE NullTexture)
                ELSE (IF CheckIfBufferIsReady THEN currentSize_ ELSE ZeroRect)]
    /\ UNCHANGED <<notTexture, bufferIsReady_, currentTexture_, currentSize_, inFrame,
                   renderedFrames>>

Accessors == {"GetTexture", "GetRenderSurface", "GetViewportRect"}

TextureInit ==
    /\ EarlierIdle
    /\ ShadowCameraIdle
    /\ SceneZRangeIdle
    /\ StageIdle
    /\ RestIdleExcept("texture")
    /\ bufferIsReady_ = FALSE
    /\ currentTexture_ = NullTexture
    /\ currentSize_ = 0
    /\ inFrame = FALSE
    /\ renderedFrames = 0
    /\ lastAccess = [accessor |-> "none", result |-> 0]
    /\ accessCalls = 0
    /\ accessErrors = 0

TextureNext ==
    \/ \E texture \in 1 .. NumScreenBuffers, size \in 1 .. MaxViewSize :
            TextureOnRenderBegin(texture, size)
    \/ TextureOnRenderEnd
    \/ \E accessor \in Accessors : Access(accessor)

SpecTexture == TextureInit /\ [][TextureNext]_vars

\* C37: an accessor of a TextureRenderBuffer called between OnRenderBegin and the
\* following OnRenderEnd returns the texture, render surface or viewport rect of the
\* frame; called before the first OnRenderBegin or after an OnRenderEnd it logs an
\* error and returns null or the zero rect, never the texture of an earlier frame.
C37_ExposedInFrameOnly ==
    [][accessCalls' = accessCalls + 1
        => IF inFrame
           THEN /\ accessErrors' = accessErrors
                /\ lastAccess'.result =
                        IF lastAccess'.accessor = "GetTexture" THEN currentTexture_
                        ELSE IF lastAccess'.accessor = "GetRenderSurface"
                        THEN currentTexture_ + SurfaceOffset
                        ELSE currentSize_
           ELSE /\ accessErrors' = accessErrors + 1
                /\ lastAccess'.result = 0]_vars

\* After the second frame ended the buffer still holds its texture, and GetTexture
\* logged an error and returned null.
C37_Witness ==
    /\ renderedFrames = 2
    /\ ~inFrame
    /\ currentTexture_ # NullTexture
    /\ lastAccess = [accessor |-> "GetTexture", result |-> NullTexture]
    /\ accessErrors = 1
    /\ accessCalls = 2

(***************************************************************************)
(* The grid of the shadow map.                                             *)
(***************************************************************************)

\* The grid the splits are to be laid out in.
GridOfSplits(n) ==
    CASE n = 1 -> <<1, 1>>
      [] n = 2 -> <<2, 1>>
      [] n \in 3 .. 5 -> <<2, 2>>
      [] n = 6 -> <<3, 2>>

\* The split counts whose grid has a cell for every split.
SplitsWithEnoughCells == { n \in 1 .. MAX_CUBEMAP_FACES : n # 5 }

\* The size FinalizeShadowMap requests is the size of a split times the grid.
RequestedSizeIsSplitSizeTimesGrid ==
    (lpc = "sized" /\ hasShadow_) =>
        LET size == IF lightInput.lightType = "point" THEN 256 ELSE 512
        IN /\ numSplits_ \in 1 .. MAX_CUBEMAP_FACES
           /\ shadowMapSize_ = <<size * GridOfSplits(numSplits_)[1],
                                 size * GridOfSplits(numSplits_)[2]>>

notPenalty ==
    <<earlierVars, shadowCamera_, sceneZRange_, stageVars, lightingVars, processVars,
      bufferVars, splitVars, hashVars, geometryVars, addBatchVars, cameraVars, colorVars,
      textureVars, focusVars>>

RECURSIVE Pow2(_)
Pow2(n) == IF n = 0 THEN 1 ELSE 2 * Pow2(n - 1)

\* The weight of the hidden bit of the 24 bit significand of a float.
HiddenBit == Pow2(23)

\* A float other than zero is a significand m with HiddenBit <= |m| < 2 * HiddenBit
\* and an exponent e and stands for m * 2^e; zero has the significand 0.
Float(m, e) == [m |-> m, e |-> e]

\* The float of a small integer, which is exact.
RECURSIVE FloatOf(_, _)
FloatOf(n, e) ==
    IF n = 0 THEN Float(0, 0)
    ELSE IF n < HiddenBit /\ -n < HiddenBit THEN FloatOf(2 * n, e - 1)
    ELSE Float(n, e)

\* a < b on floats of the same sign.
MagnitudeLess(a, b) ==
    IF a.m = 0 THEN b.m # 0
    ELSE IF b.m = 0 THEN FALSE
    ELSE a.e < b.e \/ (a.e = b.e /\ a.m < b.m)

\* operator < of float
FloatLess(a, b) ==
    IF a.m < 0 /\ b.m >= 0 THEN TRUE
    ELSE IF a.m >= 0 /\ b.m < 0 THEN FALSE
    ELSE IF a.m >= 0 THEN MagnitudeLess(a, b)
    ELSE MagnitudeLess(Float(-b.m, b.e), Float(-a.m, a.e))

\* operator <= of float
FloatLessEq(a, b) == ~FloatLess(b, a)

\* m / 2^s rounded to the nearest integer, ties to the even one.
RoundShift(m, s) ==
    IF s = 0 THEN m
    ELSE LET k == m \div Pow2(s)
             frac == m % Pow2(s)
             half == Pow2(s - 1)
         IN IF frac > half \/ (frac = half /\ k % 2 = 1) THEN k + 1 ELSE k

\* m / 2^s truncated, the lowest bit set when a bit was shifted out (sticky bit).
ShiftSticky(m, s) ==
    IF s = 0 THEN m
    ELSE IF s > 27 THEN 1
    ELSE LET k == m \div Pow2(s)
         IN IF m % Pow2(s) = 0 \/ k % 2 = 1 THEN k ELSE k + 1

\* The float nearest to the positive value sum * 2^e, ties to even.
RECURSIVE RoundNormalize(_, _)
RoundNormalize(sum, e) ==
    IF sum < HiddenBit THEN RoundNormalize(2 * sum, e - 1)
    ELSE IF sum < 2 * HiddenBit THEN Float(sum, e)
    ELSE LET s == CHOOSE s \in 1 .. 5 : sum \div Pow2(s) \in HiddenBit .. 2 * HiddenBit - 1
             m == RoundShift(sum, s)
         IN IF m = 2 * HiddenBit THEN Float(HiddenBit, e + s + 1) ELSE Float(m, e + s)

\* a + b of positive floats: the operands are aligned with three guard bits.
FloatAdd(a, b) ==
    LET big == IF a.e >= b.e THEN a ELSE b
        small == IF a.e >= b.e THEN b ELSE a
    IN RoundNormalize(8 * big.m + ShiftSticky(8 * small.m, big.e - small.e), big.e - 3)

\* a - b of positive floats with a > b.
FloatSub(a, b) ==
    RoundNormalize(8 * a.m - ShiftSticky(8 * b.m, a.e - b.e), a.e - 3)

\* The quotient and the remainder of rem * 2^n by m, bit by bit.
RECURSIVE DivBits(_, _, _, _)
DivBits(rem, m, n, q) ==
    IF n = 0 THEN <<q, rem>>
    ELSE LET bit == IF 2 * rem >= m THEN 1 ELSE 0
         IN DivBits(2 * rem - bit * m, m, n - 1, 2 * q + bit)

\* 1.0f / p of a positive float.
Reciprocal(p) ==
    IF p.m = HiddenBit THEN Float(HiddenBit, -p.e - 46)
    ELSE LET d == DivBits(HiddenBit, p.m, 24, 0)
             q == IF 2 * d[2] > p.m \/ (2 * d[2] = p.m /\ d[1] % 2 = 1) THEN d[1] + 1 ELSE d[1]
         IN RoundNormalize(q, -p.e - 47)

\* Mutant: an automatic light beyond the intensity penalty 1 gets 3 - 1 / penalty.
GetDrawableLightPenalty_AutoUpToThree(intensityPenalty, importance, type) ==
    CASE importance = "LI_IMPORTANT" ->
            IF type = LIGHT_DIRECTIONAL THEN FloatOf(-2, 0) ELSE FloatOf(-1, 0)
      [] importance = "LI_AUTO" ->
            IF FloatLessEq(intensityPenalty, FloatOf(1, 0))
            THEN intensityPenalty
            ELSE FloatSub(FloatOf(3, 0), Reciprocal(intensityPenalty))
      [] importance = "LI_NOT_IMPORTANT" ->
            IF FloatLessEq(intensityPenalty, FloatOf(1, 0))
            THEN FloatAdd(FloatOf(3, 0), intensityPenalty)
            ELSE FloatSub(FloatOf(5, 0), Reciprocal(intensityPenalty))

\* GetDrawableLightPenalty
GetDrawableLightPenalty(intensityPenalty, importance, type) ==
    CASE importance = "LI_IMPORTANT" ->
            IF type = LIGHT_DIRECTIONAL THEN FloatOf(-2, 0) ELSE FloatOf(-1, 0)
      [] importance = "LI_AUTO" ->
            IF FloatLessEq(intensityPenalty, FloatOf(1, 0))
            THEN intensityPenalty
            ELSE FloatSub(FloatOf(2, 0), Reciprocal(intensityPenalty))
      [] importance = "LI_NOT_IMPORTANT" ->
            IF FloatLessEq(intensityPenalty, FloatOf(1, 0))
            THEN FloatAdd(FloatOf(3, 0), intensityPenalty)
            ELSE FloatSub(FloatOf(5, 0), Reciprocal(intensityPenalty))

\* The body of the loop of ProcessForwardLighting for one lit geometry: the light is
\* accumulated with its penalty.  distance * lightIntensityPenalty is the input.
AccumulateLightPenalty(intensityPenalty, importance, type) ==
    /\ Len(accumulatedLights) < MaxAccumulatedLights
    /\ accumulatedLights' = Append(accumulatedLights,
            [intensityPenalty |-> intensityPenalty, importance |-> importance, type |-> type,
             penalty |-> GetDrawableLightPenalty(intensityPenalty, importance, type)])
    /\ UNCHANGED notPenalty

\* The binary orders of magnitude of the intensity penalties: around one, and those
\* where 1 / penalty and the penalty itself fall below the spacing of the floats
\* around 2, 3 and 5.
PenaltyBinades ==
    (-MaxBinade .. 3 - MaxBinade) \cup (-1 .. 1) \cup (MaxBinade - 3 .. MaxBinade)

\* Positive intensity penalties: the least and the greatest float of each binade.
IntensityPenalties ==
    { Float(m, b - 23) : m \in {HiddenBit, 2 * HiddenBit - 1}, b \in PenaltyBinades }

LightImportances == {"LI_IMPORTANT", "LI_AUTO", "LI_NOT_IMPORTANT"}

\* No light is accumulated yet.
PenaltyInit == EarlierIdle /\ LaterIdle

PenaltyNext ==
    \E intensityPenalty \in IntensityPenalties, importance \in LightImportances,
       type \in {LIGHT_DIRECTIONAL, LIGHT_SPOT, LIGHT_POINT} :
        AccumulateLightPenalty(intensityPenalty, importance, type)

SpecPenalty == PenaltyInit /\ [][PenaltyNext]_vars

\* The importance class of a light: the lower, the more important.
ImportanceClass(l) ==
    CASE l.importance = "LI_IMPORTANT" -> IF l.type = LIGHT_DIRECTIONAL THEN 0 ELSE 1
      [] l.importance = "LI_AUTO" -> 2
      [] l.importance = "LI_NOT_IMPORTANT" -> 3

\* The penalties of the important lights, the order within a class and the order of
\* the classes.
PenaltiesRankByClass ==
    /\ \A i \in 1 .. Len(accumulatedLights) :
            LET l == accumulatedLights[i]
            IN /\ ImportanceClass(l) = 0 => l.penalty = FloatOf(-2, 0)
               /\ ImportanceClass(l) = 1 => l.penalty = FloatOf(-1, 0)
    /\ \A i, j \in 1 .. Len(accumulatedLights) :
            LET a == accumulatedLights[i]
                b == accumulatedLights[j]
            IN /\ (/\ a.importance = b.importance
                   /\ a.importance # "LI_IMPORTANT"
                   /\ FloatLessEq(a.intensityPenalty, b.intensityPenalty))
                    => FloatLessEq(a.penalty, b.penalty)
               /\ ImportanceClass(a) < ImportanceClass(b) => FloatLess(a.penalty, b.penalty)

\* C39 as stated: an important directional light gets the penalty -2, another
\* important light -1, an automatic light a penalty in [0, 2) and a not important
\* light a penalty in [3, 5); within the latter two classes the penalty does not
\* decrease with the intensity penalty, and a light of a more important class has a
\* lower penalty than a light of a less important class.
C39_PenaltiesInHalfOpenRanges ==
    /\ PenaltiesRankByClass
    /\ \A i \in 1 .. Len(accumulatedLights) :
            LET l == accumulatedLights[i]
            IN /\ l.importance = "LI_AUTO" =>
                    FloatLessEq(FloatOf(0, 0), l.penalty) /\ FloatLess(l.penalty, FloatOf(2, 0))
               /\ l.importance = "LI_NOT_IMPORTANT" =>
                    FloatLessEq(FloatOf(3, 0), l.penalty) /\ FloatLess(l.penalty, FloatOf(5, 0))

\* C39: an important directional light gets the penalty -2, another important light
\* -1, an automatic light a penalty in [0, 2] and a not important light a penalty in
\* [3, 5], the upper ends included; within the latter two classes the penalty does
\* not decrease with the intensity penalty, and a light of a more important class
\* has a lower penalty than a light of a less important class.
C39_PenaltiesRankByClass ==
    /\ PenaltiesRankByClass
    /\ \A i \in 1 .. Len(accumulatedLights) :
            LET l == accumulatedLights[i]
            IN /\ l.importance = "LI_AUTO" =>
                    FloatLessEq(FloatOf(0, 0), l.penalty) /\ FloatLessEq(l.penalty, FloatOf(2, 0))
               /\ l.importance = "LI_NOT_IMPORTANT" =>
                    FloatLessEq(FloatOf(3, 0), l.penalty) /\ FloatLessEq(l.penalty, FloatOf(5, 0))

\* An automatic light with the intensity penalty 2^24 got the penalty 2 and a not
\* important light with the intensity penalty 2^-24 the penalty 3.
C39_Witness ==
    /\ Len(accumulatedLights) = 2
    /\ accumulatedLights[1].importance = "LI_AUTO"
    /\ accumulatedLights[1].intensityPenalty = Float(HiddenBit, 1)
    /\ accumulatedLights[1].penalty = FloatOf(2, 0)
    /\ accumulatedLights[2].importance = "LI_NOT_IMPORTANT"
    /\ accumulatedLights[2].intensityPenalty = Float(HiddenBit, -47)
    /\ accumulatedLights[2].penalty = FloatOf(3, 0)

(***************************************************************************)
(* SceneLightShadowSplit::SetupDirLightShadowCamera: the frustum volume    *)
(***************************************************************************)

notFocusedCamera ==
    <<earlierVars, sceneZRange_, stageVars, lightingVars, processVars, bufferVars, splitVars,
      hashVars, geometryVars, addBatchVars, cameraVars, colorVars, textureVars, penaltyVars>>

\* A BoundingBox nothing was merged into.
UndefinedBox == Box(<<M_LARGE_VALUE, M_LARGE_VALUE>>, <<-M_LARGE_VALUE, -M_LARGE_VALUE>>)

\* BoundingBox::Defined
Defined(box) == box.min[1] <= box.max[1]

\* Polyhedron::Clip(BoundingBox): what of the volume lies in the box.
Clip(volume, box) ==
    Box(<<MaxOf(volume.min[1], box.min[1]), MaxOf(volume.min[2], box.min[2])>>,
        <<MinOf(volume.max[1], box.max[1]), MinOf(volume.max[2], box.max[2])>>)

\* Polyhedron::Empty
Empty(volume) == \E axis \in 1 .. 2 : volume.min[axis] > volume.max[axis]

\* The Z range of the split the frustum is made for.
SplitZRange(parameters, zRange) ==
    IF parameters.focus_ THEN RangeIntersection(sceneZRange_, zRange) ELSE zRange

\* Camera::GetSplitFrustum of the cull camera, which moves a far clip below the near
\* clip up to the near clip.
SplitFrustumOf(splitZRange) ==
    GetSplitFrustum(splitZRange[1], MaxOf(splitZRange[1], splitZRange[2]))

\* The combined bounding box of the lit geometries within the split.
RECURSIVE LitGeometriesBox(_, _)
LitGeometriesBox(geometries, splitZRange) ==
    IF geometries = <<>> THEN UndefinedBox
    ELSE LET drawable == Head(geometries)
             rest == LitGeometriesBox(Tail(geometries), splitZRange)
         IN IF Interset(drawable.geometryZRange, splitZRange)
            THEN Merge(rest, drawable.worldBoundingBox)
            ELSE rest

\* Mutant: the volume is left as the clipping made it.
FocusedFrustumVolume_KeepingEmpty(parameters, splitFrustum, litBox) ==
    IF parameters.focus_ /\ Defined(litBox) THEN Clip(splitFrustum, litBox) ELSE splitFrustum

\* The frustum volume of SetupDirLightShadowCamera: clipped by the box of the lit
\* geometries when focusing, and restored when the clipping left nothing.
FocusedFrustumVolume(parameters, splitFrustum, litBox) ==
    IF parameters.focus_ /\ Defined(litBox)
    THEN IF Empty(Clip(splitFrustum, litBox)) THEN splitFrustum ELSE Clip(splitFrustum, litBox)
    ELSE splitFrustum

\* The shadow box fitted to the volume: the volume itself, or the box of a sphere
\* around it, whose diameter is the diagonal of the volume rounded up.
FitShadowBox(parameters, volume) ==
    IF parameters.nonUniform_ THEN volume
    ELSE LET width == volume.max[1] - volume.min[1]
             depth == volume.max[2] - volume.min[2]
             diameter == CeilSqrt(width * width + depth * depth, 1)
         IN Box(volume.min, <<volume.min[1] + diameter, volume.min[2] + diameter>>)

\* SceneLightShadowSplit::SetupDirLightShadowCamera for a split with the Z range
\* zRange_ and the lit geometries of the light: the volume, the shadow box and the
\* quantized size of the shadow camera, once in a frame.  The view of the camera is
\* as high as wide.
SetupFocusedDirLightShadowCamera(zRange, geometries) ==
    LET parameters == shadowCamera_.parameters
        splitZRange == SplitZRange(parameters, zRange)
        splitFrustum == SplitFrustumOf(splitZRange)
        volume == FocusedFrustumVolume(parameters, splitFrustum,
                                       LitGeometriesBox(geometries, splitZRange))
        fitted == FitShadowBox(parameters, volume)
        viewBox == <<fitted.max[1] - fitted.min[1], fitted.max[1] - fitted.min[1]>>
        camera == QuantizeDirLightShadowCamera(shadowCamera_, viewBox)
    IN /\ shadowCamera_.pc \in {"idle", "finalized"}
       /\ setupInput' = [zRange_ |-> zRange, litGeometries |-> geometries]
       /\ frustumVolume' = volume
       /\ shadowBox' = fitted
       /\ shadowCamera_' = [camera EXCEPT !.viewBox = viewBox,
                                           !.setupSize = CameraViewSize(camera),
                                           !.pc = "setup"]
       /\ UNCHANGED notFocusedCamera

\* A lit geometry as the set-up reads it: its Z range in the view of the cull camera
\* and its world bounding box.
LitGeometry(geometryZRange, worldBoundingBox) ==
    [geometryZRange |-> geometryZRange, worldBoundingBox |-> worldBoundingBox]

\* Lit geometries: inside the frustum, near the camera beside the frustum, far
\* beside the frustum, across the far edge of the frustum, and one too large to
\* have a Z range.
LitGeometryInputs ==
    { LitGeometry(<<1, 2>>, Box(<<1, FrustumMinZ>>, <<2, FrustumMaxZ>>)),
      LitGeometry(<<1, 2>>, Box(<<1, 0>>, <<2, FrustumMinZ - 1>>)),
      LitGeometry(<<3, MaxDistance>>, Box(<<3, FrustumMaxZ + 1>>, <<MaxDistance, FrustumMaxZ + 2>>)),
      LitGeometry(<<2, 3>>, Box(<<2, FrustumMaxZ>>, <<3, FrustumMaxZ + 2>>)),
      LitGeometry(NoRange, Box(<<0, 0>>, <<M_LARGE_VALUE, M_LARGE_VALUE>>)) }

\* The lists of at most MaxLitGeometries lit geometries.
LitGeometryLists ==
    UNION { [1 .. n -> LitGeometryInputs] : n \in 0 .. MaxLitGeometries }

\* The Z ranges BeginFrame gives a split: the near split is below the far split.
SplitZRanges == { <<near, far>> \in (1 .. MaxDistance) \X (1 .. MaxDistance) : near < far }

FocusInit ==
    /\ EarlierIdle
    /\ StageIdle
    /\ RestIdle
    /\ sceneZRange_ \in SceneZRanges
    /\ \E parameters \in FocusParameters :
        shadowCamera_ = [parameters |-> parameters, viewBox |-> <<1, 1>>, orthoSize_ |-> 1,
                         aspectRatio_ |-> <<1, 1>>, setupSize |-> <<1, 1>>, pc |-> "idle"]

FocusNext ==
    \E zRange \in SplitZRanges, geometries \in LitGeometryLists :
        SetupFocusedDirLightShadowCamera(zRange, geometries)

SpecFocus == FocusInit /\ [][FocusNext]_vars

\* The points of the grid of the model.
GridPoints == (0 .. MaxDistance + 2) \X (0 .. FrustumMaxZ + 2)

\* The points of a box or volume.
PointsOf(box) ==
    { p \in GridPoints : \A axis \in 1 .. 2 : box.min[axis] <= p[axis] /\ p[axis] <= box.max[axis] }

\* The lit geometries of the latest call that intersect the split.
LitWithinSplit ==
    LET splitZRange == SplitZRange(shadowCamera_.parameters, setupInput.zRange_)
    IN { i \in 1 .. Len(setupInput.litGeometries) :
            LET range == setupInput.litGeometries[i].geometryZRange
            IN /\ range[1] <= range[2]
               /\ splitZRange[1] <= splitZRange[2]
               /\ range[1] <= splitZRange[2]
               /\ splitZRange[1] <= range[2] }

\* The points of the least box around the lit geometries within the split.
PointsOfLitGeometries ==
    { p \in GridPoints : \A axis \in 1 .. 2 :
        /\ \E i \in LitWithinSplit : setupInput.litGeometries[i].worldBoundingBox.min[axis] <= p[axis]
        /\ \E i \in LitWithinSplit : p[axis] <= setupInput.litGeometries[i].worldBoundingBox.max[axis] }

\* The points of the unclipped split frustum of the latest call.
PointsOfSplitFrustum ==
    PointsOf(SplitFrustumOf(SplitZRange(shadowCamera_.parameters, setupInput.zRange_)))

\* C40: focusing never empties the frustum volume SetupDirLightShadowCamera fits the
\* shadow camera to: the volume has a point whenever the split frustum has one; when
\* focusing is enabled and the split frustum has no point in the bounding box of the
\* lit geometries within the split, the volume is the unclipped split frustum; when
\* no lit geometry intersects the split, or focusing is disabled, the volume is the
\* unclipped split frustum too; otherwise it is what of the split frustum lies in
\* the box.  The shadow box holds the volume.
C40_NoEmptyFocusedVolume ==
    shadowCamera_.pc = "setup" =>
        /\ (PointsOfSplitFrustum # {} => PointsOf(frustumVolume) # {})
        /\ PointsOf(frustumVolume) \subseteq PointsOf(shadowBox)
        /\ PointsOf(frustumVolume) =
            IF /\ shadowCamera_.parameters.focus_
               /\ LitWithinSplit # {}
               /\ PointsOfSplitFrustum \cap PointsOfLitGeometries # {}
            THEN PointsOfSplitFrustum \cap PointsOfLitGeometries
            ELSE PointsOfSplitFrustum

\* Focusing is enabled, a lit geometry lies within the split and beside the split
\* frustum, and the volume is the unclipped split frustum.
C40_Witness ==
    /\ shadowCamera_.pc = "setup"
    /\ shadowCamera_.parameters.focus_
    /\ LitWithinSplit # {}
    /\ PointsOfSplitFrustum \cap PointsOfLitGeometries = {}
    /\ frustumVolume = SplitFrustumOf(SplitZRange(shadowCamera_.parameters, setupInput.zRange_))

====
